---- MODULE Spec2Model ----
(***************************************************************************)
(* Model of the conversational form-filling interview of API_CALL_GUI:     *)
(* the type validator/normaliser, the completion gateway, the field        *)
(* matcher, the answer extractor and the interview controller of           *)
(* src/API_Call1.py, driven by the session handlers of src/GUI.py.         *)
(*                                                                         *)
(* Python strings are modelled as sequences of one-character strings, so   *)
(* that strip(), lower(), substring tests, split("\n") and isdigit() are   *)
(* computed on the characters.  Python's None is the value None below; a   *)
(* raised exception is a value <<"<raise>", name>>.                        *)
(***************************************************************************)
EXTENDS Integers, Sequences, FiniteSets, TLC

(***************************************************************************)
(* Python string primitives                                                *)
(***************************************************************************)
None == <<"<None>">>

Raise(e) == <<"<raise>", e>>

IsRaise(x) == Len(x) = 2 /\ x[1] = "<raise>"

UpperChars == <<"A","B","C","D","E","F","G","H","I","J","K","L","M",
                "N","O","P","Q","R","S","T","U","V","W","X","Y","Z">>

LowerChars == <<"a","b","c","d","e","f","g","h","i","j","k","l","m",
                "n","o","p","q","r","s","t","u","v","w","x","y","z">>

DigitChars == <<"0","1","2","3","4","5","6","7","8","9">>

LowerChar(c) ==
    IF \E i \in 1..26 : UpperChars[i] = c
    THEN LowerChars[CHOOSE i \in 1..26 : UpperChars[i] = c]
    ELSE c

\* str.lower()
Lower(s) == [i \in 1..Len(s) |-> LowerChar(s[i])]

IsSpace(c) == c \in {" ", "\n", "\t"}

RECURSIVE LStrip(_)
LStrip(s) == IF s # <<>> /\ IsSpace(Head(s)) THEN LStrip(Tail(s)) ELSE s

RECURSIVE RStrip(_)
RStrip(s) ==
    IF s # <<>> /\ IsSpace(s[Len(s)]) THEN RStrip(SubSeq(s, 1, Len(s) - 1)) ELSE s

\* at most one whitespace character removed from each end
Strip_once(s) ==
    SubSeq(s, IF s # <<>> /\ IsSpace(Head(s)) THEN 2 ELSE 1,
              IF Len(s) > 1 /\ IsSpace(s[Len(s)]) THEN Len(s) - 1 ELSE Len(s))

\* str.strip()
Strip(s) == RStrip(LStrip(s))

\* sub in s
Contains(s, sub) ==
    \E i \in 0..(Len(s) - Len(sub)) : SubSeq(s, i + 1, i + Len(sub)) = sub

\* s.replace(c, "") for a one-character c
RemoveChar(s, c) == SelectSeq(s, LAMBDA x : x # c)

\* s.split("\n")[0]
FirstLine(s) ==
    IF \E i \in 1..Len(s) : s[i] = "\n"
    THEN SubSeq(s, 1, (CHOOSE i \in 1..Len(s) :
                          s[i] = "\n" /\ \A j \in 1..(i - 1) : s[j] # "\n") - 1)
    ELSE s

IsDigitChar(c) == \E i \in 1..10 : DigitChars[i] = c

\* str.isdigit()
IsDigit(s) == s # <<>> /\ \A i \in 1..Len(s) : IsDigitChar(s[i])

DigitVal(c) == (CHOOSE i \in 1..10 : DigitChars[i] = c) - 1

RECURSIVE NatOf(_)
NatOf(s) == IF s = <<>> THEN 0
            ELSE 10 * NatOf(SubSeq(s, 1, Len(s) - 1)) + DigitVal(s[Len(s)])

RECURSIVE StrOfNat(_)
StrOfNat(n) == IF n < 10 THEN <<DigitChars[n + 1]>>
               ELSE StrOfNat(n \div 10) \o <<DigitChars[(n % 10) + 1]>>

RECURSIVE DropTrailingZeros(_)
DropTrailingZeros(s) ==
    IF s # <<>> /\ s[Len(s)] = "0" THEN DropTrailingZeros(SubSeq(s, 1, Len(s) - 1))
    ELSE s

(***************************************************************************)
(* float(s), int(x), str(x) on the decimal spellings without exponent or   *)
(* digit-group underscores, and on the special spellings inf and nan.      *)
(***************************************************************************)
FloatErr == [kind |-> "err", neg |-> FALSE, ip |-> 0, frac |-> <<>>]

ParseUnsigned(b) ==
    LET lb == Lower(b) IN
    IF lb \in {<<"i","n","f">>, <<"i","n","f","i","n","i","t","y">>}
    THEN [kind |-> "inf", neg |-> FALSE, ip |-> 0, frac |-> <<>>]
    ELSE IF lb = <<"n","a","n">>
    THEN [kind |-> "nan", neg |-> FALSE, ip |-> 0, frac |-> <<>>]
    ELSE IF \E i \in 1..Len(b) : b[i] = "."
    THEN LET d  == CHOOSE i \in 1..Len(b) : b[i] = "." /\ \A j \in 1..(i - 1) : b[j] # "."
             ip == SubSeq(b, 1, d - 1)
             fr == SubSeq(b, d + 1, Len(b))
         IN IF /\ ip \o fr # <<>>
               /\ \A i \in 1..Len(ip) : IsDigitChar(ip[i])
               /\ \A i \in 1..Len(fr) : IsDigitChar(fr[i])
            THEN [kind |-> "num", neg |-> FALSE, ip |-> NatOf(ip),
                  frac |-> DropTrailingZeros(fr)]
            ELSE FloatErr
    ELSE IF IsDigit(b)
    THEN [kind |-> "num", neg |-> FALSE, ip |-> NatOf(b), frac |-> <<>>]
    ELSE FloatErr

WithSign(r, neg) == IF r.kind = "err" THEN r ELSE [r EXCEPT !.neg = neg]

ParseSigned(t) ==
    IF t # <<>> /\ Head(t) \in {"+", "-"}
    THEN WithSign(ParseUnsigned(Tail(t)), Head(t) = "-")
    ELSE ParseUnsigned(t)

\* float(s): leading and trailing whitespace is ignored, one optional sign
ParseFloat(s) == ParseSigned(Strip(s))

\* str(int(x)) for a finite x: truncation toward zero
StrOfInt(x) ==
    IF x.neg /\ x.ip > 0 THEN <<"-">> \o StrOfNat(x.ip) ELSE StrOfNat(x.ip)

\* str(x) for a float x
StrOfFloat(x) ==
    LET sign == IF x.neg THEN <<"-">> ELSE <<>> IN
    CASE x.kind = "inf" -> sign \o <<"i","n","f">>
      [] x.kind = "nan" -> <<"n","a","n">>
      [] OTHER -> sign \o StrOfNat(x.ip) \o <<".">>
                       \o (IF x.frac = <<>> THEN <<"0">> ELSE x.frac)

(***************************************************************************)
(* Type validator / normaliser                                             *)
(***************************************************************************)
\* type_str.lower() on the Type spellings used by the modelled forms
LowerType(t) ==
    CASE t = "Boolean" -> "boolean"
      [] t = "Int"     -> "int"
      [] t = "Text"    -> "text"
      [] t = "String"  -> "string"
      [] OTHER         -> t

normalize_type(type_str) ==
    LET l == LowerType(type_str) IN
    CASE l = "phone"  -> "text"
      [] l = "date"   -> "datetime"
      [] l = "string" -> "text"
      [] OTHER        -> l

s_yes == <<"y","e","s">>

s_no == <<"n","o">>

YesLexicon == {s_yes, <<"y","e","a","h">>, <<"y","e","p">>, <<"t","r","u","e">>,
               <<"o","f"," ","c","o","u","r","s","e">>}

NoLexicon == {s_no, <<"n","o","p","e">>, <<"n","a","h">>, <<"f","a","l","s","e">>}

\* int(x) and str() of it, with the except clause of lines 35-36
IntResult(x) ==
    CASE x.kind = "err" -> None
      [] x.kind = "nan" -> None                       \* int(nan): ValueError, caught
      [] x.kind = "inf" -> Raise("OverflowError")     \* int(inf): not caught
      [] OTHER          -> StrOfInt(x)

\* the int branch of clean_value: str(int(float(val.replace(",", ""))))
CleanInt(val) == IntResult(ParseFloat(RemoveChar(val, ",")))

FloatResult(x) == IF x.kind = "err" THEN None ELSE StrOfFloat(x)

\* the float branch of clean_value
CleanFloat(val) == FloatResult(ParseFloat(RemoveChar(RemoveChar(val, ","), "$")))

\* the negative lexicon tested before the affirmative one
CleanLowered_nofirst(raw_value, val, expected_type) ==
    IF expected_type = "boolean" /\ \E p \in NoLexicon : Contains(val, p)
    THEN s_no
    ELSE IF expected_type = "boolean" /\ \E p \in YesLexicon : Contains(val, p)
    THEN s_yes
    ELSE IF expected_type = "int" THEN CleanInt(val)
    ELSE IF expected_type = "float" THEN CleanFloat(val)
    ELSE Strip(raw_value)

\* clean_value from line 26 on; val is raw_value.strip().lower()
CleanLowered(raw_value, val, expected_type) ==
    IF expected_type = "boolean" /\ \E p \in YesLexicon : Contains(val, p)
    THEN s_yes
    ELSE IF expected_type = "boolean" /\ \E p \in NoLexicon : Contains(val, p)
    THEN s_no
    ELSE IF expected_type = "int" THEN CleanInt(val)
    ELSE IF expected_type = "float" THEN CleanFloat(val)
    ELSE Strip(raw_value)

clean_value(raw_value, expected_type) ==
    IF raw_value = None THEN None
    ELSE CleanLowered(raw_value, Lower(Strip(raw_value)), expected_type)

\* dateutil's parse() accepts: a number of up to four digits (a day or a
\* year) and an ISO date YYYY-MM-DD; of the other strings of the model's
\* alphabet (words, sentences, the empty string) it accepts none.
ParseDateOK(s) ==
    LET t == Strip(s) IN
    \/ IsDigit(t) /\ Len(t) <= 4 /\ NatOf(t) >= 1
    \/ /\ Len(t) = 10
       /\ t[5] = "-" /\ t[8] = "-"
       /\ IsDigit(SubSeq(t, 1, 4)) /\ IsDigit(SubSeq(t, 6, 7)) /\ IsDigit(SubSeq(t, 9, 10))
       /\ NatOf(SubSeq(t, 6, 7)) \in 1..12
       /\ NatOf(SubSeq(t, 9, 10)) \in 1..28

\* validate_answer raises exactly when its clean_value call raises
ValidateRaises(value, expected_type) ==
    IsRaise(clean_value(value, normalize_type(expected_type)))

\* a Type that is not known passes
ValidateCleaned_open(cleaned, et, options) ==
    IF cleaned = None \/ IsRaise(cleaned) THEN FALSE
    ELSE CASE et = "text"        -> cleaned # <<>>
           [] et = "int"         -> IsDigit(cleaned)
           [] et = "float"       -> ParseFloat(cleaned).kind # "err"
           [] et = "datetime"    -> ParseDateOK(cleaned)
           [] et = "boolean"     -> cleaned \in {s_yes, s_no}
           [] et = "multichoice" ->
                 \E i \in 1..Len(options) : Lower(options[i]) = Lower(cleaned)
           [] OTHER              -> TRUE

\* validate_answer from line 77 on
ValidateCleaned(cleaned, et, options) ==
    IF cleaned = None \/ IsRaise(cleaned) THEN FALSE
    ELSE CASE et = "text"        -> cleaned # <<>>
           [] et = "int"         -> IsDigit(cleaned)
           [] et = "float"       -> ParseFloat(cleaned).kind # "err"
           [] et = "datetime"    -> ParseDateOK(cleaned)
           [] et = "boolean"     -> cleaned \in {s_yes, s_no}
           [] et = "multichoice" ->
                 \E i \in 1..Len(options) : Lower(options[i]) = Lower(cleaned)
           [] OTHER              -> FALSE

validate_answer(value, expected_type, options) ==
    ValidateCleaned(clean_value(value, normalize_type(expected_type)),
                    normalize_type(expected_type), options)

(***************************************************************************)
(* Transcript messages.  A message is [role, kind, args]: kind names the   *)
(* template that built the content and args are the strings the template   *)
(* was filled with, in order.                                              *)
(***************************************************************************)
Msg(role, kind, args) == [role |-> role, kind |-> kind, args |-> args]

\* answers is the dict of the form, as the sequence of its entries in
\* declared (insertion) order
Keys(answers) == [i \in 1..Len(answers) |-> answers[i].Name]

IsUnanswered(v) == Strip(v.Value) = <<>>

\* [k for k, v in answers.items() if v.get("Value", "").strip() == ""]
Unanswered(answers) == Keys(SelectSeq(answers, IsUnanswered))

IndexOfKey(answers, k) == CHOOSE i \in 1..Len(answers) : answers[i].Name = k

build_system_prompt(questions) == Msg("system", "sysprompt", Keys(questions))

\* list.insert(1, x)
Insert1(l, x) == IF l = <<>> THEN <<x>> ELSE <<Head(l), x>> \o Tail(l)

\* list.pop(1) on a list of at least two elements
Pop1(l) == <<Head(l)>> \o Tail(Tail(l))

\* a matcher or extractor that forgets its pop()
PopLast_keep(l) == l

\* list.pop()
PopLast(l) == SubSeq(l, 1, Len(l) - 1)

(***************************************************************************)
(* Completion gateway.  The oracle's behaviour on one request is an        *)
(* outcome [kind, text]:                                                   *)
(*   ok       the payload has completion_message.content.text = text       *)
(*   neterr   requests.post raises                                         *)
(*   jsonerr  response.json() raises (body is not JSON)                    *)
(*   keyerr   the payload is an object lacking one of the keys             *)
(*   typeerr  a level of the payload is not an object (list/string/null)   *)
(***************************************************************************)
Outcome(kind, text) == [kind |-> kind, text |-> text]

parse_response(response) ==
    CASE response.kind = "ok"     -> [exc |-> "", text |-> response.text]
      [] response.kind = "keyerr" -> [exc |-> "ValueError", text |-> <<>>]
      [] OTHER                    -> [exc |-> "TypeError", text |-> <<>>]

NoMsg == Msg("", "", <<>>)

RECURSIVE SummaryArgs(_)
SummaryArgs(filled) ==
    IF filled = <<>> THEN <<>>
    ELSE <<Head(filled).Name, Head(filled).Value>> \o SummaryArgs(Tail(filled))

answered_summary_message(answers) ==
    LET filled == SelectSeq(answers, LAMBDA v : ~IsUnanswered(v)) IN
    IF answers = <<>> \/ filled = <<>> THEN NoMsg
    ELSE Msg("system", "summary", SummaryArgs(filled))

\* One gateway call: [conv, exc, response, call] where conv is the caller's
\* list after the call, exc the raised exception ("" if none) and call the
\* record of what happened: the list before the call (pre), whether a
\* request was sent and with which messages (sent), the list when the call
\* ended (post), and the oracle's outcome.
CallRec(purpose, pre, requested, sent, post, out) ==
    [purpose |-> purpose, pre |-> pre, requested |-> requested, sent |-> sent,
     post |-> post, out |-> out.kind, text |-> out.text]

\* the credential checked only after the summary is spliced in
Gateway_late(conversation, summary_msg, inserted, out, key, purpose) ==
    IF ~key
    THEN [conv |-> inserted, exc |-> "RuntimeError", response |-> out,
          call |-> CallRec(purpose, conversation, FALSE, <<>>, inserted,
                           Outcome("nokey", <<>>))]
    ELSE IF out.kind = "neterr"
    THEN [conv |-> inserted, exc |-> "ConnectionError", response |-> out,
          call |-> CallRec(purpose, conversation, TRUE, inserted, inserted, out)]
    ELSE [conv |-> IF summary_msg # NoMsg THEN Pop1(inserted) ELSE inserted,
          exc |-> IF out.kind = "jsonerr" THEN "JSONDecodeError" ELSE "",
          response |-> out,
          call |-> CallRec(purpose, conversation, TRUE, inserted,
                           IF summary_msg # NoMsg THEN Pop1(inserted) ELSE inserted, out)]

\* chat_completion from line 136 on, summary_msg being computed
Gateway(conversation, summary_msg, inserted, out, key, purpose) ==
    IF ~key
    THEN [conv |-> conversation, exc |-> "RuntimeError", response |-> out,
          call |-> CallRec(purpose, conversation, FALSE, <<>>, conversation,
                           Outcome("nokey", <<>>))]
    ELSE IF out.kind = "neterr"
    THEN [conv |-> inserted, exc |-> "ConnectionError", response |-> out,
          call |-> CallRec(purpose, conversation, TRUE, inserted, inserted, out)]
    ELSE [conv |-> IF summary_msg # NoMsg THEN Pop1(inserted) ELSE inserted,
          exc |-> IF out.kind = "jsonerr" THEN "JSONDecodeError" ELSE "",
          response |-> out,
          call |-> CallRec(purpose, conversation, TRUE, inserted,
                           IF summary_msg # NoMsg THEN Pop1(inserted) ELSE inserted, out)]

\* lines 135-137
Splice(conversation, summary_msg) ==
    IF summary_msg # NoMsg THEN Insert1(conversation, summary_msg) ELSE conversation

chat_completion(conversation, answers, out, key, purpose) ==
    Gateway(conversation, answered_summary_message(answers),
            Splice(conversation, answered_summary_message(answers)), out, key, purpose)

(***************************************************************************)
(* Field matcher                                                           *)
(***************************************************************************)
\* the character U+2019 (right single quotation mark) of "let<U+2019>s start"
RightQuote == "<U+2019>"

GreetingLexicon == {<<"h","i">>, <<"h","e","l","l","o">>,
                    <<"l","e","t",RightQuote,"s"," ","s","t","a","r","t">>,
                    <<"s","t","a","r","t">>}

\* the length test alone, without the greeting lexicon
MatchShortCircuit_len(user_input) == Len(Strip(user_input)) < 3

MatchShortCircuit(user_input) ==
    Len(Strip(user_input)) < 3 \/ Lower(user_input) \in GreetingLexicon

\* the comparison without .lower()
MatchLoop_cs(match_text, unanswered_fields) ==
    LET hits == SelectSeq(unanswered_fields, LAMBDA f : match_text = f) IN
    IF hits = <<>> THEN None ELSE Head(hits)

\* the loop over unanswered_fields: the first field equal to match_text
\* ignoring case, else None
MatchLoop(match_text, unanswered_fields) ==
    LET hits == SelectSeq(unanswered_fields, LAMBDA f : Lower(match_text) = Lower(f)) IN
    IF hits = <<>> THEN None ELSE Head(hits)

\* lines 166-173, cc being the result of the call of line 165
MatchAfterCall(cc, unanswered_fields) ==
    IF cc.exc # ""
    THEN [conv |-> cc.conv, exc |-> cc.exc, ret |-> None, calls |-> <<cc.call>>]
    ELSE IF parse_response(cc.response).exc # ""
    THEN [conv |-> cc.conv, exc |-> parse_response(cc.response).exc, ret |-> None,
          calls |-> <<cc.call>>]
    ELSE [conv |-> PopLast(cc.conv), exc |-> "",
          ret |-> MatchLoop(Strip(parse_response(cc.response).text), unanswered_fields),
          calls |-> <<cc.call>>]

\* [conv, exc, ret, calls]
ask_llama_to_match_field(conversation, user_input, unanswered_fields, answers, out, key) ==
    IF MatchShortCircuit(user_input)
    THEN [conv |-> conversation, exc |-> "", ret |-> None, calls |-> <<>>]
    ELSE MatchAfterCall(
             chat_completion(
                 Append(conversation,
                        Msg("user", "probe", <<user_input>> \o unanswered_fields)),
                 answers, out, key, "match"),
             unanswered_fields)

(***************************************************************************)
(* Answer extractor                                                        *)
(***************************************************************************)
\* the cleaned value returned without validate_answer
CheckCleaned_trust(cleaned, field_info) ==
    IF IsRaise(cleaned) THEN [exc |-> cleaned[2], ret |-> None]
    ELSE [exc |-> "", ret |-> cleaned]

\* validate_answer on the cleaned value, as lines 182-183 and 205-208:
\* [exc, ret] with ret the cleaned value if valid, else None
CheckCleaned(cleaned, field_info) ==
    IF IsRaise(cleaned) THEN [exc |-> cleaned[2], ret |-> None]
    ELSE IF ValidateRaises(cleaned, field_info.Type)
    THEN [exc |-> "OverflowError", ret |-> None]
    ELSE IF validate_answer(cleaned, field_info.Type, field_info.Options)
    THEN [exc |-> "", ret |-> cleaned]
    ELSE [exc |-> "", ret |-> None]

\* clean_value followed by validate_answer, with the field's Type as written
CleanAndValidate(raw, field_info) ==
    CheckCleaned(clean_value(raw, field_info.Type), field_info)

\* lines 204-208
ExtractResult(cc, remote) ==
    [conv |-> PopLast(cc.conv), exc |-> remote.exc, ret |-> remote.ret,
     calls |-> <<cc.call>>]

\* lines 201-208, cc being the result of the call of line 200
ExtractAfterCall(cc, field_info) ==
    IF cc.exc # ""
    THEN [conv |-> cc.conv, exc |-> cc.exc, ret |-> None, calls |-> <<cc.call>>]
    ELSE IF parse_response(cc.response).exc # ""
    THEN [conv |-> cc.conv, exc |-> parse_response(cc.response).exc, ret |-> None,
          calls |-> <<cc.call>>]
    ELSE ExtractResult(cc, CleanAndValidate(Strip(parse_response(cc.response).text),
                                            field_info))

\* lines 182-200, local being the result of the local cleaning
ExtractAfterLocal(local, conversation, field_name, field_info, user_input, answers, out, key) ==
    IF local.exc # ""
    THEN [conv |-> conversation, exc |-> local.exc, ret |-> None, calls |-> <<>>]
    ELSE IF local.ret # None
    THEN [conv |-> conversation, exc |-> "", ret |-> local.ret, calls |-> <<>>]
    ELSE ExtractAfterCall(
             chat_completion(
                 Append(conversation, Msg("user", "extract", <<field_name, user_input>>)),
                 answers, out, key, "extract"),
             field_info)

\* [conv, exc, ret, calls]
extract_clean_answer(conversation, field_name, field_info, user_input, answers, out, key) ==
    ExtractAfterLocal(CleanAndValidate(user_input, field_info), conversation, field_name,
                      field_info, user_input, answers, out, key)

(***************************************************************************)
(* Interview controller: one turn of process_user_message.                 *)
(* o1, o2, o3 are the oracle's outcomes for the match call, the extract    *)
(* call and the final (follow-up / retry / forced / generic) call.         *)
(* Result: [conv, answers, msg, done, exc, calls, ops, saves, branch]; conv *)
(* and answers are the caller's objects after the call (they are mutated   *)
(* in place, so they are as left behind also when exc # "").               *)
(***************************************************************************)
ExitPhrases == {<<"i","'","m"," ","d","o","n","e">>,
                <<"d","o","n","e"," ","a","n","s","w","e","r","i","n","g">>,
                <<"n","o"," ","m","o","r","e"," ","q","u","e","s","t","i","o","n","s">>,
                <<"b","y","e">>,
                <<"t","h","a","t","'","s"," ","a","l","l">>}

\* whole-utterance comparison instead of the substring test
IsExit_exact(user_input) == Lower(user_input) \in ExitPhrases

IsExit(user_input) == \E p \in ExitPhrases : Contains(Lower(user_input), p)

ClosingMsg == <<"<Conversation ended. Thank you for your responses!>">>

AllAnsweredMsg == <<"<All questions are answered and saved. Thank you!>">>

NoPath == <<"<no path>">>

Turn(conv, answers, msg, done, exc, calls, ops, saves, branch) ==
    [conv |-> conv, answers |-> answers, msg |-> msg, done |-> done, exc |-> exc,
     calls |-> calls, ops |-> ops, saves |-> saves, branch |-> branch]

\* record of one invocation of the matcher or the extractor: the transcript
\* when it began and when it ended, what it raised or returned, and the
\* gateway calls it made
OpRec(name, before, res, user_input, fields) ==
    [name |-> name, before |-> before, after |-> res.conv, exc |-> res.exc,
     ret |-> res.ret, calls |-> res.calls, user_input |-> user_input,
     fields |-> fields]

\* a failed call made a second time before the failure is raised
ReplyAfterCall_retry(cc, answers, purpose, calls, ops) ==
    IF cc.exc # ""
    THEN Turn(cc.conv, answers, None, FALSE, cc.exc, calls \o <<cc.call, cc.call>>, ops,
              <<>>, purpose)
    ELSE IF parse_response(cc.response).exc # ""
    THEN Turn(cc.conv, answers, None, FALSE, parse_response(cc.response).exc,
              Append(calls, cc.call), ops, <<>>, purpose)
    ELSE Turn(Append(cc.conv,
                     Msg("assistant", "reply", <<Strip(parse_response(cc.response).text)>>)),
              answers, Strip(parse_response(cc.response).text), FALSE, "",
              Append(calls, cc.call), ops, <<>>, purpose)

\* lines 302-305, 311-313 and 327-329, cc being the result of the call
ReplyAfterCall(cc, answers, purpose, calls, ops) ==
    IF cc.exc # ""
    THEN Turn(cc.conv, answers, None, FALSE, cc.exc, Append(calls, cc.call), ops, <<>>,
              purpose)
    ELSE IF parse_response(cc.response).exc # ""
    THEN Turn(cc.conv, answers, None, FALSE, parse_response(cc.response).exc,
              Append(calls, cc.call), ops, <<>>, purpose)
    ELSE Turn(Append(cc.conv,
                     Msg("assistant", "reply", <<Strip(parse_response(cc.response).text)>>)),
              answers, Strip(parse_response(cc.response).text), FALSE, "",
              Append(calls, cc.call), ops, <<>>, purpose)

\* a prompt appended by the controller, one gateway call, the reply appended
\* as the assistant message: lines 300-305, 309-313 and 325-329
PromptAndReply(conv, answers, prompt, out, key, purpose, calls, ops) ==
    ReplyAfterCall(chat_completion(Append(conv, prompt), answers, out, key, purpose),
                   answers, purpose, calls, ops)

\* lines 333-343, cc being the result of the call of line 332
GenericAfterCall(cc, reply, answers, path, calls, ops) ==
    IF cc.exc # ""
    THEN Turn(cc.conv, answers, None, FALSE, cc.exc, calls, ops, <<>>, "generic")
    ELSE IF parse_response(cc.response).exc # ""
    THEN Turn(cc.conv, answers, None, FALSE, parse_response(cc.response).exc, calls, ops,
              <<>>, "generic")
    ELSE IF Unanswered(answers) = <<>>
    THEN IF path = NoPath
         THEN Turn(Append(cc.conv, reply), answers, None, FALSE, "TypeError", calls, ops,
                   <<>>, "generic")
         ELSE Turn(Append(cc.conv, reply), answers, AllAnsweredMsg, TRUE, "", calls, ops,
                   <<answers>>, "generic")
    ELSE Turn(Append(cc.conv, reply), answers, reply.args[1], FALSE, "", calls, ops, <<>>,
              "generic")

GenericReply(cc) ==
    Msg("assistant", "reply", <<Strip(parse_response(cc.response).text)>>)

GenericCalled(cc, answers, path, calls, ops) ==
    GenericAfterCall(cc, GenericReply(cc), answers, path, Append(calls, cc.call), ops)

\* lines 331-343: the generic call and the final completion check
GenericTurn(conv, answers, path, out, key, calls, ops) ==
    GenericCalled(chat_completion(conv, answers, out, key, "generic"), answers, path,
                  calls, ops)

\* the answers saved before the new Value is written
RecordAnswer_stale(conv, answers, written, path, o3, key, calls, ops) ==
    IF Unanswered(written) = <<>>
    THEN Turn(conv, written, AllAnsweredMsg, TRUE, "", calls, ops, <<answers>>, "complete")
    ELSE PromptAndReply(conv, written, Msg("user", "followup", Unanswered(written)),
                        o3, key, "followup", calls, ops)

\* completion decided on the required fields only
RecordAnswer_required(conv, answers, written, path, o3, key, calls, ops) ==
    IF SelectSeq(written, LAMBDA v : v.Required /\ IsUnanswered(v)) = <<>>
    THEN IF path = NoPath
         THEN Turn(conv, written, None, FALSE, "TypeError", calls, ops, <<>>, "complete")
         ELSE Turn(conv, written, AllAnsweredMsg, TRUE, "", calls, ops, <<written>>,
                   "complete")
    ELSE PromptAndReply(conv, written, Msg("user", "followup", Unanswered(written)),
                        o3, key, "followup", calls, ops)

\* lines 289-305: the Value is written (written is answers after line 285)
RecordAnswer(conv, answers, written, path, o3, key, calls, ops) ==
    IF Unanswered(written) = <<>>
    THEN IF path = NoPath
         THEN Turn(conv, written, None, FALSE, "TypeError", calls, ops, <<>>, "complete")
         ELSE Turn(conv, written, AllAnsweredMsg, TRUE, "", calls, ops, <<written>>,
                   "complete")
    ELSE PromptAndReply(conv, written, Msg("user", "followup", Unanswered(written)),
                        o3, key, "followup", calls, ops)

\* the rejected input stored as the field's Value
RetryTurn_store(conv, answers, matched_key, user_input, o3, key, calls, ops) ==
    PromptAndReply(conv,
                   [answers EXCEPT ![IndexOfKey(answers, matched_key)].Value = user_input],
                   Msg("user", "retry", <<matched_key, user_input>>),
                   o3, key, "retry", calls, ops)

\* a second failure for the same field ends the interview
RetryTurn_limit(conv, answers, matched_key, user_input, o3, key, calls, ops) ==
    IF \E k \in 1..Len(conv) : conv[k].kind = "retry" /\ conv[k].args[1] = matched_key
    THEN Turn(conv, answers, ClosingMsg, TRUE, "", calls, ops, <<answers>>, "retry")
    ELSE PromptAndReply(conv, answers, Msg("user", "retry", <<matched_key, user_input>>),
                        o3, key, "retry", calls, ops)

\* lines 306-313: extraction failed
RetryTurn(conv, answers, matched_key, user_input, o3, key, calls, ops) ==
    PromptAndReply(conv, answers, Msg("user", "retry", <<matched_key, user_input>>),
                   o3, key, "retry", calls, ops)

\* the extracted value written to every unanswered field
AfterExtract_all(ex, answers, path, user_input, matched_key, o3, key, calls, ops) ==
    IF ex.exc # ""
    THEN Turn(ex.conv, answers, None, FALSE, ex.exc, calls, ops, <<>>, "extract")
    ELSE IF ex.ret # None /\ ex.ret # <<>>
    THEN RecordAnswer(ex.conv, answers,
                      [i \in 1..Len(answers) |->
                          IF IsUnanswered(answers[i])
                          THEN [answers[i] EXCEPT !.Value = Strip(FirstLine(ex.ret))]
                          ELSE answers[i]],
                      path, o3, key, calls, ops)
    ELSE RetryTurn(ex.conv, answers, matched_key, user_input, o3, key, calls, ops)

\* lines 284-313, ex being the result of extract_clean_answer
AfterExtract(ex, answers, path, user_input, matched_key, o3, key, calls, ops) ==
    IF ex.exc # ""
    THEN Turn(ex.conv, answers, None, FALSE, ex.exc, calls, ops, <<>>, "extract")
    ELSE IF ex.ret # None /\ ex.ret # <<>>
    THEN RecordAnswer(ex.conv, answers,
                      [answers EXCEPT ![IndexOfKey(answers, matched_key)].Value =
                                          Strip(FirstLine(ex.ret))],
                      path, o3, key, calls, ops)
    ELSE RetryTurn(ex.conv, answers, matched_key, user_input, o3, key, calls, ops)

Extracted(ex, conv, answers, path, user_input, matched_key, o3, key, calls, ops) ==
    AfterExtract(ex, answers, path, user_input, matched_key, o3, key, calls \o ex.calls,
                 Append(ops, OpRec("extract", conv, ex, user_input, <<matched_key>>)))

\* lines 280-313: a field was matched
MatchedTurn(conv, answers, path, user_input, matched_key, o2, o3, key, calls, ops) ==
    Extracted(extract_clean_answer(conv, matched_key,
                                   answers[IndexOfKey(answers, matched_key)],
                                   user_input, answers, o2, key),
              conv, answers, path, user_input, matched_key, o3, key, calls, ops)

\* without the forced prompt of lines 316-329
AfterMatch_generic(m, ops, user_input, answers, answer_file_path, o2, o3, key) ==
    IF m.exc # ""
    THEN Turn(m.conv, answers, None, FALSE, m.exc, m.calls, ops, <<>>, "match")
    ELSE IF m.ret # None /\ m.ret # <<>>
    THEN MatchedTurn(m.conv, answers, answer_file_path, user_input, m.ret, o2, o3, key,
                     m.calls, ops)
    ELSE GenericTurn(m.conv, answers, answer_file_path, o3, key, m.calls, ops)

\* lines 280-343, m being the result of ask_llama_to_match_field
AfterMatch(m, ops, user_input, answers, answer_file_path, o2, o3, key) ==
    IF m.exc # ""
    THEN Turn(m.conv, answers, None, FALSE, m.exc, m.calls, ops, <<>>, "match")
    ELSE IF m.ret # None /\ m.ret # <<>>
    THEN MatchedTurn(m.conv, answers, answer_file_path, user_input, m.ret, o2, o3, key,
                     m.calls, ops)
    ELSE IF Unanswered(answers) = Keys(answers)
    THEN IF answers = <<>>
         THEN Turn(m.conv, answers, None, FALSE, "IndexError", m.calls, ops, <<>>, "force")
         ELSE PromptAndReply(m.conv, answers,
                             Msg("user", "force", <<user_input, answers[1].Name>>),
                             o3, key, "force", m.calls, ops)
    ELSE GenericTurn(m.conv, answers, answer_file_path, o3, key, m.calls, ops)

Matched(m, conv1, user_input, answers, answer_file_path, o2, o3, key) ==
    AfterMatch(m, <<OpRec("match", conv1, m, user_input, Unanswered(answers))>>,
               user_input, answers, answer_file_path, o2, o3, key)

\* the matcher offered every field, answered or not
UtteranceAppended_allfields(conv1, user_input, answers, answer_file_path, o1, o2, o3, key) ==
    IF IsExit(user_input)
    THEN IF answer_file_path = NoPath
         THEN Turn(conv1, answers, None, FALSE, "TypeError", <<>>, <<>>, <<>>, "exit")
         ELSE Turn(conv1, answers, ClosingMsg, TRUE, "", <<>>, <<>>, <<answers>>, "exit")
    ELSE Matched(ask_llama_to_match_field(conv1, user_input, Keys(answers), answers,
                                          o1, key),
                 conv1, user_input, answers, answer_file_path, o2, o3, key)

\* lines 269-343, conv1 being the transcript after line 268
UtteranceAppended(conv1, user_input, answers, answer_file_path, o1, o2, o3, key) ==
    IF IsExit(user_input)
    THEN IF answer_file_path = NoPath
         THEN Turn(conv1, answers, None, FALSE, "TypeError", <<>>, <<>>, <<>>, "exit")
         ELSE Turn(conv1, answers, ClosingMsg, TRUE, "", <<>>, <<>>, <<answers>>, "exit")
    ELSE Matched(ask_llama_to_match_field(conv1, user_input, Unanswered(answers), answers,
                                          o1, key),
                 conv1, user_input, answers, answer_file_path, o2, o3, key)

process_user_message(user_input, conversation, answers, answer_file_path, o1, o2, o3, key) ==
    UtteranceAppended(Append(conversation, Msg("user", "utterance", <<user_input>>)),
                      user_input, answers, answer_file_path, o1, o2, o3, key)

(***************************************************************************)
(* Forms, utterances and oracle outcomes of the model                      *)
(***************************************************************************)
Field(name, type, required, options) ==
    [Name |-> name, Value |-> <<>>, Type |-> type, Required |-> required,
     Options |-> options]

n_Name == <<"N","a","m","e">>

n_Age == <<"A","g","e">>

n_Member == <<"M","e","m","b","e","r">>

\* the form files of the Forms folder, by form name; "survey" declares a Type
\* that validate_answer does not know
FormNames == {"contact", "membership", "survey"}

Forms == [f \in FormNames |->
            IF f = "contact"
            THEN <<Field(n_Name, "text", TRUE, <<>>)>>
            ELSE IF f = "survey"
            THEN <<Field(n_Age, "number", TRUE, <<>>)>>
            ELSE <<Field(n_Age, "int", TRUE, <<>>),
                   Field(n_Member, "Boolean", FALSE, <<"Yes", "No">>)>>]

u_ok == <<"o","k">>

u_Hello == <<"H","e","l","l","o">>

u_blank == <<" ">>

u_okBYE == <<"o","k"," ","B","Y","E">>

u_1200 == <<"1",",","2","0","0">>

u_Yeah == <<"Y","e","a","h">>

u_inf == <<"i","n","f">>

Utterances == {u_ok, u_Hello, u_blank, u_okBYE, u_1200, u_Yeah}

t_age == <<" ","a","g","e"," ">>

t_None == <<"N","o","n","e">>

t_12 == <<"1","2">>

t_Invalid == <<"I","n","v","a","l","i","d"," ","i","n","p","u","t">>

t_SureYes == <<"S","u","r","e","\n","y","e","s">>

t_Next == <<"N","e","x","t","?"," ">>

MatchOutcomes ==
    {Outcome("ok", t) : t \in {n_Name, t_age, n_Member, t_None}}
        \cup {Outcome(k, <<>>) : k \in {"neterr", "jsonerr", "keyerr", "typeerr"}}

ExtractOutcomes ==
    {Outcome("ok", t) : t \in {t_12, t_Invalid, t_SureYes}}
        \cup {Outcome(k, <<>>) : k \in {"neterr", "keyerr"}}

FinalOutcomes ==
    {Outcome("ok", t_Next)} \cup {Outcome(k, <<>>) : k \in {"neterr", "jsonerr"}}

\* stands for the outcome of a call the turn does not make
Unused == Outcome("ok", <<>>)

\* bound on the transcript length at which a further turn is still taken
MaxConv == 5

\* bound on the transcript length for turns taken before any form is started
MaxPreStart == 1

(***************************************************************************)
(* State                                                                   *)
(***************************************************************************)
VARIABLES
    api_key,    \* LLAMA_API_KEY is set in the environment
    mode,       \* "gui": GUI.py is running; "cli": API_Call1.conversation_loop
    phase,      \* "idle", "running", "ended" (CLI loop left), "crashed" (CLI)
    session,    \* GUI: the global session; CLI: the locals of conversation_loop
    last,       \* the handler invocation that has returned (or raised) and whose
                \* outputs are not yet delivered: its input, the session before
                \* it, its result and the files it wrote; Idle when there is none
    running     \* GUI handler invocations that Gradio's workers are executing
                \* at the same time, by event listener: the locals of each

vars == <<api_key, mode, phase, session, last, running>>

NoForm == "<none>"

PathOf(form_name) == <<form_name>>

NoTurn == Turn(<<>>, <<>>, None, FALSE, "", <<>>, <<>>, <<>>, "")

\* saves: the contents written to the answers file, in order;
\* logs: the contents written to chat_log.json, in order
Last(op, user_input, pre, r, saves, logs) ==
    [op |-> op, user_input |-> user_input, pre |-> pre, r |-> r,
     saves |-> saves, logs |-> logs]

Idle == Last("idle", <<>>, <<>>, NoTurn, <<>>, <<>>)

\* the event listeners of GUI.py bound to chat_interface (voice_btn through
\* voice_interface)
Listeners == {"send_btn", "text_input", "voice_btn"}

\* the locals of a handler invocation that is not running
IdleThread ==
    [pc |-> "idle", user_input |-> <<>>, unanswered |-> <<>>, matched_key |-> <<>>,
     summary |-> FALSE, purpose |-> ""]

NoRunning == [l \in Listeners |-> IdleThread]

Init ==
    /\ api_key \in BOOLEAN
    /\ mode \in {"gui", "cli"}
    /\ phase = "idle"
    /\ session = [conversation |-> <<>>, answers |-> <<>>, form_name |-> NoForm,
                  answer_file_path |-> NoPath]
    /\ last = Idle
    /\ running = NoRunning

HasCall(r, purposes) == \E i \in 1..Len(r.calls) : r.calls[i].purpose \in purposes

FinalPurposes == {"followup", "retry", "force", "generic"}

Run(u, o1, o2, o3) ==
    process_user_message(u, session.conversation, session.answers,
                         session.answer_file_path, o1, o2, o3, api_key)

\* All results of one turn on the session: the oracle's outcomes are
\* enumerated only for the calls the turn makes (r0, r1, r2 are the results
\* with the outcomes not yet chosen replaced by Unused).
ResultsAfterExtract(u, o1, o2, r2) ==
    IF ~HasCall(r2, FinalPurposes) THEN {r2}
    ELSE { Run(u, o1, o2, o3) : o3 \in FinalOutcomes }

ResultsAfterMatch(u, o1, r1) ==
    IF ~HasCall(r1, {"extract"} \cup FinalPurposes) THEN {r1}
    ELSE UNION { ResultsAfterExtract(u, o1, o2, Run(u, o1, o2, Unused)) :
                 o2 \in IF HasCall(r1, {"extract"}) THEN ExtractOutcomes ELSE {Unused} }

ResultsFrom(u, r0) ==
    UNION { ResultsAfterMatch(u, o1, Run(u, o1, Unused, Unused)) :
            o1 \in IF HasCall(r0, {"match"}) THEN MatchOutcomes ELSE {Unused} }

TurnResults(u) == ResultsFrom(u, Run(u, Unused, Unused, Unused))

(***************************************************************************)
(* GUI handlers                                                            *)
(***************************************************************************)
start_form(selected_form) ==
    /\ mode = "gui"
    /\ last = Idle
    /\ session' = [form_name |-> selected_form,
                   answers |-> Forms[selected_form],
                   conversation |->
                       <<build_system_prompt(Forms[selected_form]),
                         Msg("assistant", "begin",
                             <<Lower(Forms[selected_form][1].Name)>>)>>,
                   answer_file_path |-> PathOf(selected_form)]
    /\ phase' = "running"
    /\ last' = Last("start_form", <<>>, session, NoTurn, <<>>, <<>>)
    /\ UNCHANGED <<running, api_key, mode>>

chat_interface(text_input) ==
    /\ mode = "gui"
    /\ last = Idle
    /\ IF session.form_name = NoForm
       THEN Len(session.conversation) < MaxPreStart
       ELSE Len(session.conversation) <= MaxConv
    /\ IF Strip(text_input) = <<>>
       THEN UNCHANGED vars
       ELSE \E r \in TurnResults(text_input) :
              /\ session' = [session EXCEPT !.conversation = r.conv, !.answers = r.answers]
              /\ last' = IF r.exc = "" /\ r.done
                         THEN Last("chat_interface", text_input, session, r,
                                   Append(r.saves, r.answers), <<r.conv>>)
                         ELSE Last("chat_interface", text_input, session, r, r.saves, <<>>)
              /\ UNCHANGED <<running, api_key, mode, phase>>

(***************************************************************************)
(* CLI: conversation_loop of API_Call1                                     *)
(***************************************************************************)
\* lines 347-363, after select_form_via_llm has returned a form file
conversation_loop_start(selected_file) ==
    /\ mode = "cli"
    /\ phase = "idle"
    /\ last = Idle
    /\ api_key      \* select_form_via_llm raises without the credential
    /\ session' = [form_name |-> selected_file,
                   answers |-> Forms[selected_file],
                   conversation |-> <<build_system_prompt(Forms[selected_file])>>,
                   answer_file_path |-> PathOf(selected_file)]
    /\ phase' = "running"
    /\ last' = Last("conversation_loop_start", <<>>, session, NoTurn, <<>>, <<>>)
    /\ UNCHANGED <<running, api_key, mode>>

\* one iteration of the while loop, lines 365-374, and lines 376-377 when
\* the loop is left
conversation_loop_turn(line) ==
    /\ mode = "cli"
    /\ phase = "running"
    /\ last = Idle
    /\ Len(session.conversation) <= MaxConv
    /\ LET user_input == Strip(line) IN
       IF user_input = <<>>
       THEN /\ phase' = "ended"
            /\ last' = Last("conversation_loop_turn", user_input, session, NoTurn,
                            <<session.answers>>, <<session.conversation>>)
            /\ UNCHANGED <<running, api_key, mode, session>>
       ELSE \E r \in TurnResults(user_input) :
              /\ session' = [session EXCEPT !.conversation = r.conv, !.answers = r.answers]
              /\ phase' = IF r.exc # "" THEN "crashed"
                          ELSE IF r.done THEN "ended" ELSE "running"
              /\ last' = IF r.exc = "" /\ r.done
                         THEN Last("conversation_loop_turn", user_input, session, r,
                                   Append(r.saves, r.answers), <<r.conv>>)
                         ELSE Last("conversation_loop_turn", user_input, session, r,
                                   r.saves, <<>>)
              /\ UNCHANGED <<running, api_key, mode>>

\* The outputs of the handler that returned are delivered (Gradio updates
\* the components and accepts the next event; the CLI prints and returns to
\* its prompt or exits).
deliver ==
    /\ last # Idle
    /\ last' = Idle
    /\ UNCHANGED <<running, api_key, mode, phase, session>>

Next ==
    \/ \E f \in FormNames : start_form(f)
    \/ \E u \in Utterances : chat_interface(u)
    \/ \E f \in FormNames : conversation_loop_start(f)
    \/ \E u \in Utterances : conversation_loop_turn(u)
    \/ deliver

Spec == Init /\ [][Next]_vars

(***************************************************************************)
(* The extractor applied on its own: extract_clean_answer is called once   *)
(* on a transcript and a field drawn from the sets below.                  *)
(***************************************************************************)
u_Red == <<" ","R","E","D"," ">>

u_date == <<"2","0","2","4","-","0","1","-","0","5">>

FnUtterances == {u_1200, u_Yeah, u_inf, u_Red, u_date, u_Hello}

n_Field == <<"F","i","e","l","d">>

FnOptions == <<<<"R","e","d">>, <<"B","l","u","e">>>>

FnTypes == {"text", "int", "Int", "float", "boolean", "Boolean", "multichoice",
            "date", "colour"}

FnField(type) == Field(n_Field, type, TRUE, IF type = "multichoice" THEN FnOptions ELSE <<>>)

\* with and without an answered field before the field asked for
FnAnswers ==
    {<<FnField(t)>> : t \in FnTypes}
        \cup {<<[Field(n_Name, "text", TRUE, <<>>) EXCEPT !.Value = u_Hello], FnField(t)>> :
                 t \in FnTypes}

FnOutcomes ==
    ExtractOutcomes \cup {Outcome("ok", t) : t \in {u_inf, u_Red, u_date, u_Yeah}}
        \cup {Outcome("jsonerr", <<>>)}

InitFn ==
    /\ api_key \in BOOLEAN
    /\ mode = "fn"
    /\ phase = "idle"
    /\ session \in {[conversation |-> <<build_system_prompt(a)>>, answers |-> a,
                     form_name |-> "fn", answer_file_path |-> PathOf("fn")] :
                    a \in FnAnswers}
    /\ last = Idle
    /\ running = NoRunning

\* the result of the extractor in the shape of a turn's record
FnTurn(res, op) ==
    Turn(res.conv, session.answers, None, FALSE, res.exc, res.calls, <<op>>, <<>>, "")

FnExtracted(res, user_input, field_name) ==
    /\ session' = [session EXCEPT !.conversation = res.conv]
    /\ last' = Last("extract_clean_answer", user_input, session,
                    FnTurn(res, OpRec("extract", session.conversation, res, user_input,
                                      <<field_name>>)),
                    <<>>, <<>>)

\* one call extract_clean_answer(conversation, field_name, field_info,
\* user_input, answers) for the last field of the form
call_extract_clean_answer(user_input, out) ==
    /\ mode = "fn"
    /\ phase = "idle"
    /\ phase' = "returned"
    /\ FnExtracted(extract_clean_answer(session.conversation,
                                        session.answers[Len(session.answers)].Name,
                                        session.answers[Len(session.answers)],
                                        user_input, session.answers, out, api_key),
                   user_input, session.answers[Len(session.answers)].Name)
    /\ UNCHANGED <<running, api_key, mode>>

(***************************************************************************)
(* The validator applied on its own: clean_value and validate_answer are   *)
(* called for the Type and Options of the session's last field, on an      *)
(* input string or on the string the call before returned.                 *)
(***************************************************************************)
u_pad == <<" "," ","o","k"," ">>

u_NoYes == <<"N","o",","," ","y","e","s">>

u_know == <<"I"," ","K","n","o","w">>

u_price == <<"$","1","7",".","5","0">>

u_neg == <<"-","5">>

u_Blue == <<"b","l","u","e">>

CleanInputs == FnUtterances \cup {u_pad, u_NoYes, u_know, u_price, u_neg, u_Blue}

\* Python's True and False as returned by validate_answer
PyTrue == <<"<True>">>

PyFalse == <<"<False>">>

PyBool(b) == IF b THEN PyTrue ELSE PyFalse

FnLastField == session.answers[Len(session.answers)]

\* the value a call returned, or what it raised, in the shape of the
\* results of the matcher and the extractor
FnReturned(x) ==
    [conv |-> session.conversation, exc |-> IF IsRaise(x) THEN x[2] ELSE "",
     ret |-> IF IsRaise(x) THEN None ELSE x, calls |-> <<>>]

\* the call is recorded after the calls made before it
FnApplied(name, value, x, type, next_phase) ==
    /\ phase' = IF IsRaise(x) THEN "raised" ELSE next_phase
    /\ last' = Last(name, value, session,
                    Turn(session.conversation, session.answers, None, FALSE,
                         IF IsRaise(x) THEN x[2] ELSE "", <<>>,
                         Append(last.r.ops,
                                OpRec(name, session.conversation, FnReturned(x), value,
                                      <<type>>)),
                         <<>>, ""),
                    <<>>, <<>>)
    /\ UNCHANGED <<running, api_key, mode, session>>

\* the strings the next call can be given: an input, or the string the
\* call before returned
FnArguments ==
    IF phase = "idle" THEN CleanInputs \cup {None}
    ELSE {last.r.ops[Len(last.r.ops)].ret}

\* one call clean_value(raw_value, expected_type)
call_clean_value(raw_value) ==
    /\ mode = "fn"
    /\ phase \in {"idle", "cleaned"}
    /\ raw_value \in FnArguments
    /\ FnApplied("clean_value", raw_value, clean_value(raw_value, FnLastField.Type),
                 FnLastField.Type, IF phase = "idle" THEN "cleaned" ELSE "recleaned")

\* one call validate_answer(value, expected_type, options)
call_validate_answer(value) ==
    /\ mode = "fn"
    /\ phase \in {"idle", "cleaned", "recleaned"}
    /\ value \in FnArguments
    /\ FnApplied("validate_answer", value,
                 IF ValidateRaises(value, FnLastField.Type)
                 THEN clean_value(value, normalize_type(FnLastField.Type))
                 ELSE PyBool(validate_answer(value, FnLastField.Type,
                                             FnLastField.Options)),
                 FnLastField.Type, "validated")

NextFn ==
    \/ \E u \in FnUtterances, o \in FnOutcomes : call_extract_clean_answer(u, o)
    \/ \E v \in FnArguments : call_clean_value(v)
    \/ \E v \in FnArguments : call_validate_answer(v)

SpecFn == InitFn /\ [][NextFn]_vars

(***************************************************************************)
(* API_Call2: the earlier variant of the controller.  Its matcher has no   *)
(* short circuit, its extractor always asks the oracle and validates the   *)
(* reply as it is (no clean_value, no normalize_type), its CLI loop writes *)
(* the answers file at start and after every recorded Value and ends when  *)
(* no required field is unanswered; its process_user_message works on the  *)
(* module's globals and returns the message only.                          *)
(***************************************************************************)
\* value.lower() in options
InOptions(value, options) == \E i \in 1..Len(options) : options[i] = Lower(value)

\* API_Call2.validate_answer
validate_answer2(value, expected_type, options) ==
    CASE expected_type = "text"        -> Strip(value) # <<>>
      [] expected_type = "int"         -> IsDigit(value)
      [] expected_type = "datetime"    -> ParseDateOK(value)
      [] expected_type = "boolean"     ->
            Lower(value) \in {s_yes, s_no} \/ InOptions(value, options)
      [] expected_type = "multichoice" ->
            \E i \in 1..Len(options) : Lower(options[i]) = Lower(value)
      [] OTHER                         -> FALSE

\* API_Call2.ask_llama_to_match_field: [conv, exc, ret, calls]
ask_llama_to_match_field2(conversation, user_input, unanswered_fields, answers, out, key) ==
    MatchAfterCall(
        chat_completion(
            Append(conversation, Msg("user", "probe", <<user_input>> \o unanswered_fields)),
            answers, out, key, "match"),
        unanswered_fields)

\* lines 134-137 of API_Call2
ExtractResult2(cc, extracted, field_info) ==
    [conv |-> PopLast(cc.conv), exc |-> "",
     ret |-> IF validate_answer2(extracted, field_info.Type, field_info.Options)
             THEN extracted ELSE None,
     calls |-> <<cc.call>>]

ExtractAfterCall2(cc, field_info) ==
    IF cc.exc # ""
    THEN [conv |-> cc.conv, exc |-> cc.exc, ret |-> None, calls |-> <<cc.call>>]
    ELSE IF parse_response(cc.response).exc # ""
    THEN [conv |-> cc.conv, exc |-> parse_response(cc.response).exc, ret |-> None,
          calls |-> <<cc.call>>]
    ELSE ExtractResult2(cc, Strip(parse_response(cc.response).text), field_info)

\* API_Call2.extract_clean_answer: [conv, exc, ret, calls]
extract_clean_answer2(conversation, field_name, field_info, user_input, answers, out, key) ==
    ExtractAfterCall2(
        chat_completion(
            Append(conversation, Msg("user", "extract", <<field_name, user_input>>)),
            answers, out, key, "extract"),
        field_info)

\* [k for k, v in answers.items() if v.get("Required") and unanswered]
RequiredUnanswered(answers) ==
    Keys(SelectSeq(answers, LAMBDA v : v.Required /\ IsUnanswered(v)))

\* lines 191-199 of API_Call2: the reply is appended and the loop ends when
\* no required field is unanswered; in process_user_message (ends = FALSE)
\* the reply is returned
GenericAfterCall2(cc, answers, calls, ops, saves, ends) ==
    IF cc.exc # ""
    THEN Turn(cc.conv, answers, None, FALSE, cc.exc, calls, ops, saves, "generic")
    ELSE IF parse_response(cc.response).exc # ""
    THEN Turn(cc.conv, answers, None, FALSE, parse_response(cc.response).exc, calls, ops,
              saves, "generic")
    ELSE Turn(Append(cc.conv, GenericReply(cc)), answers, GenericReply(cc).args[1],
              ends /\ RequiredUnanswered(answers) = <<>>, "", calls, ops, saves, "generic")

GenericCalled2(cc, answers, calls, ops, saves, ends) ==
    GenericAfterCall2(cc, answers, Append(calls, cc.call), ops, saves, ends)

GenericTurn2(conv, answers, o3, key, calls, ops, saves, ends) ==
    GenericCalled2(chat_completion(conv, answers, o3, key, "generic"), answers, calls, ops,
                   saves, ends)

\* lines 176-189 of API_Call2, ex being the result of extract_clean_answer
AfterExtract2(ex, answers, written, user_input, matched_key, o3, key, calls, ops, ends) ==
    IF ex.exc # ""
    THEN Turn(ex.conv, answers, None, FALSE, ex.exc, calls, ops, <<>>, "extract")
    ELSE IF ex.ret = None
    THEN PromptAndReply(ex.conv, answers, Msg("user", "retry", <<matched_key, user_input>>),
                        o3, key, "retry", calls, ops)
    ELSE GenericTurn2(ex.conv, written, o3, key, calls, ops, <<written>>, ends)

Extracted2(ex, conv, answers, user_input, matched_key, o3, key, calls, ops, ends) ==
    AfterExtract2(ex, answers,
                  [answers EXCEPT ![IndexOfKey(answers, matched_key)].Value =
                                      IF ex.ret = None THEN <<>> ELSE ex.ret],
                  user_input, matched_key, o3, key, calls \o ex.calls,
                  Append(ops, OpRec("extract", conv, ex, user_input, <<matched_key>>)), ends)

\* lines 170-199 of API_Call2, m being the result of the matcher
AfterMatch2(m, ops, user_input, answers, o2, o3, key, ends) ==
    IF m.exc # ""
    THEN Turn(m.conv, answers, None, FALSE, m.exc, m.calls, ops, <<>>, "match")
    ELSE IF m.ret # None /\ m.ret # <<>>
    THEN Extracted2(extract_clean_answer2(m.conv, m.ret,
                                          answers[IndexOfKey(answers, m.ret)],
                                          user_input, answers, o2, key),
                    m.conv, answers, user_input, m.ret, o3, key, m.calls, ops, ends)
    ELSE GenericTurn2(m.conv, answers, o3, key, m.calls, ops, <<>>, ends)

Matched2(m, conv1, user_input, answers, o2, o3, key, ends) ==
    AfterMatch2(m, <<OpRec("match", conv1, m, user_input, Unanswered(answers))>>,
                user_input, answers, o2, o3, key, ends)

\* one iteration of the while loop of API_Call2.conversation_loop for a
\* non-empty line (lines 165-199): done means the loop is left
LoopBody2(conv1, user_input, answers, o1, o2, o3, key) ==
    IF IsExit(user_input)
    THEN Turn(conv1, answers, None, TRUE, "", <<>>, <<>>, <<>>, "exit")
    ELSE Matched2(ask_llama_to_match_field2(conv1, user_input, Unanswered(answers),
                                            answers, o1, key),
                  conv1, user_input, answers, o2, o3, key, TRUE)

Iteration2(user_input, conversation, answers, o1, o2, o3, key) ==
    LoopBody2(Append(conversation, Msg("user", "utterance", <<user_input>>)),
              user_input, answers, o1, o2, o3, key)

InterviewEndedMsg == <<"<Interview ended. Thank you for your responses!>">>

\* API_Call2.process_user_message (lines 216-245) on the module's globals
process_user_message2(user_input, conversation, answers, o1, o2, o3, key) ==
    IF IsExit(user_input)
    THEN Turn(conversation, answers, InterviewEndedMsg, FALSE, "", <<>>, <<>>, <<>>, "exit")
    ELSE Matched2(ask_llama_to_match_field2(
                      Append(conversation, Msg("user", "utterance", <<user_input>>)),
                      user_input, Unanswered(answers), answers, o1, key),
                  Append(conversation, Msg("user", "utterance", <<user_input>>)),
                  user_input, answers, o2, o3, key, FALSE)

\* ANSWER_FILE of API_Call2
AnswerFile2 == PathOf("answers")

Session2(questions_file) ==
    [form_name |-> questions_file, answers |-> Forms[questions_file],
     conversation |-> <<build_system_prompt(Forms[questions_file])>>,
     answer_file_path |-> AnswerFile2]

Init2 ==
    /\ api_key \in BOOLEAN
    /\ mode \in {"cli2", "hook2"}
    /\ phase = "idle"
    /\ session = [conversation |-> <<>>, answers |-> <<>>, form_name |-> NoForm,
                  answer_file_path |-> NoPath]
    /\ last = Idle
    /\ running = NoRunning

Utterances2 == {u_blank, u_okBYE, u_Yeah, u_Hello}

MatchOutcomes2 ==
    {Outcome("ok", t) : t \in {n_Name, t_age, t_None}} \cup {Outcome("neterr", <<>>)}

ExtractOutcomes2 ==
    {Outcome("ok", t) : t \in {t_12, t_Invalid}} \cup {Outcome("keyerr", <<>>)}

FinalOutcomes2 == {Outcome("ok", t_Next), Outcome("neterr", <<>>)}

\* bound on the transcript length at which a further turn of API_Call2 is
\* still taken
MaxConv2 == 4

\* the oracle's outcomes for the three calls of a turn; the outcome of a
\* call the turn does not make has no effect on the result
LoopResults2(u) ==
    {Iteration2(u, session.conversation, session.answers, o1, o2, o3, api_key) :
        o1 \in MatchOutcomes2, o2 \in ExtractOutcomes2, o3 \in FinalOutcomes2}

HookResults2(u) ==
    {process_user_message2(u, session.conversation, session.answers, o1, o2, o3, api_key) :
        o1 \in MatchOutcomes2, o2 \in ExtractOutcomes2, o3 \in FinalOutcomes2}

\* API_Call2.conversation_loop, lines 152-160: questions.json holds one of
\* the forms; the answers file is written before the first prompt
conversation_loop2_start(questions_file) ==
    /\ mode = "cli2"
    /\ phase = "idle"
    /\ last = Idle
    /\ session' = Session2(questions_file)
    /\ phase' = "running"
    /\ last' = Last("conversation_loop2_start", <<>>, session, NoTurn,
                    <<Forms[questions_file]>>, <<>>)
    /\ UNCHANGED <<running, api_key, mode>>

\* one iteration of the loop (lines 162-199) and lines 201-202 when the
\* loop is left
conversation_loop2_turn(line) ==
    /\ mode = "cli2"
    /\ phase = "running"
    /\ last = Idle
    /\ Len(session.conversation) <= MaxConv2
    /\ IF Strip(line) = <<>>
       THEN /\ phase' = "ended"
            /\ last' = Last("conversation_loop2_turn", Strip(line), session, NoTurn,
                            <<session.answers>>, <<session.conversation>>)
            /\ UNCHANGED <<running, api_key, mode, session>>
       ELSE \E r \in LoopResults2(Strip(line)) :
              /\ session' = [session EXCEPT !.conversation = r.conv, !.answers = r.answers]
              /\ phase' = IF r.exc # "" THEN "crashed"
                          ELSE IF r.done THEN "ended" ELSE "running"
              /\ last' = IF r.exc = "" /\ r.done
                         THEN Last("conversation_loop2_turn", Strip(line), session, r,
                                   Append(r.saves, r.answers), <<r.conv>>)
                         ELSE Last("conversation_loop2_turn", Strip(line), session, r,
                                   r.saves, <<>>)
              /\ UNCHANGED <<running, api_key, mode>>

\* the module-level statements of lines 212-214: the globals of the hook
load_module2(questions_file) ==
    /\ mode = "hook2"
    /\ phase = "idle"
    /\ last = Idle
    /\ session' = Session2(questions_file)
    /\ phase' = "running"
    /\ last' = Last("load_module2", <<>>, session, NoTurn, <<>>, <<>>)
    /\ UNCHANGED <<running, api_key, mode>>

\* one call of API_Call2.process_user_message by its host
call_process_user_message2(user_input) ==
    /\ mode = "hook2"
    /\ phase = "running"
    /\ last = Idle
    /\ Len(session.conversation) <= MaxConv2
    /\ \E r \in HookResults2(user_input) :
          /\ session' = [session EXCEPT !.conversation = r.conv, !.answers = r.answers]
          /\ last' = Last("process_user_message2", user_input, session, r, r.saves, <<>>)
    /\ UNCHANGED <<running, api_key, mode, phase>>

Next2 ==
    \/ \E f \in FormNames : conversation_loop2_start(f)
    \/ \E u \in Utterances2 : conversation_loop2_turn(u)
    \/ \E f \in FormNames : load_module2(f)
    \/ \E u \in Utterances2 : call_process_user_message2(u)
    \/ deliver

Spec2 == Init2 /\ [][Next2]_vars

(***************************************************************************)
(* GUI.py under Gradio's workers.  Every event listener has a queue of its *)
(* own, so handlers of different listeners (send_btn.click,                *)
(* text_input.submit, voice_btn.click) run on worker threads at the same   *)
(* time; GUI.py takes no lock and all of them work on the one global       *)
(* session, whose conversation list and answers dict process_user_message  *)
(* mutates in place.  A handler is executed in segments: from its entry,   *)
(* or from the return of a gateway request, up to its next request (where  *)
(* the thread blocks in requests.post) or to its end.                      *)
(***************************************************************************)
UtterancesG == {u_Hello, u_Yeah, u_okBYE}

MatchOutcomesG == {Outcome("ok", t) : t \in {n_Member, t_age, t_None}}

ExtractOutcomesG == {Outcome("ok", t) : t \in {t_12, t_Invalid}}

FinalOutcomesG == {Outcome("ok", t_Next)}

\* bound on the transcript length at which a further handler is started
MaxConvG == 4

InitGradio ==
    /\ api_key = TRUE
    /\ mode = "gradio"
    /\ phase = "running"
    /\ session \in {[form_name |-> f, answers |-> Forms[f],
                     conversation |->
                         <<build_system_prompt(Forms[f]),
                           Msg("assistant", "begin", <<Lower(Forms[f][1].Name)>>)>>,
                     answer_file_path |-> PathOf(f)] : f \in FormNames}
    /\ last = Idle
    /\ running = NoRunning

\* chat_completion up to requests.post: the summary is spliced into the
\* shared list and the thread blocks
Send(l, conv, answers, th) ==
    /\ session' = [session EXCEPT
                      !.conversation = Splice(conv, answered_summary_message(answers)),
                      !.answers = answers]
    /\ running' = [running EXCEPT
                      ![l] = [th EXCEPT !.summary = answered_summary_message(answers) # NoMsg]]
    /\ UNCHANGED last

\* the handler ends, by return or by exception; a done turn has written
\* the answers (process_user_message, then chat_interface) and the chat log
Finish(l, conv, answers, done, user_input) ==
    /\ session' = [session EXCEPT !.conversation = conv, !.answers = answers]
    /\ running' = [running EXCEPT ![l] = IdleThread]
    /\ last' = IF done
               THEN Last("chat_interface", user_input, session, NoTurn,
                         <<answers, answers>>, <<conv>>)
               ELSE last

\* chat_completion after requests.post has returned: line 146-147
Received(conv, th) == IF th.summary THEN Pop1(conv) ELSE conv

\* lines 316-332: no field matched
NoMatch(l, conv, answers, th) ==
    IF Unanswered(answers) = Keys(answers)
    THEN Send(l, Append(conv, Msg("user", "force", <<th.user_input, answers[1].Name>>)),
              answers, [th EXCEPT !.pc = "final", !.purpose = "force"])
    ELSE Send(l, conv, answers, [th EXCEPT !.pc = "final", !.purpose = "generic"])

\* lines 285-302: the Value is written
Written(l, conv, written, th) ==
    IF Unanswered(written) = <<>>
    THEN Finish(l, conv, written, TRUE, th.user_input)
    ELSE Send(l, Append(conv, Msg("user", "followup", Unanswered(written))), written,
              [th EXCEPT !.pc = "final", !.purpose = "followup"])

WriteValue(answers, matched_key, cleaned) ==
    [answers EXCEPT ![IndexOfKey(answers, matched_key)].Value = Strip(FirstLine(cleaned))]

\* lines 182-200: the result of the local cleaning
LocalChecked(l, conv, th, res) ==
    IF res.exc # "" THEN Finish(l, conv, session.answers, FALSE, th.user_input)
    ELSE IF res.ret # None /\ res.ret # <<>>
    THEN Written(l, conv, WriteValue(session.answers, th.matched_key, res.ret), th)
    ELSE Send(l, Append(conv, Msg("user", "extract", <<th.matched_key, th.user_input>>)),
              session.answers, [th EXCEPT !.pc = "extract"])

\* lines 205-208 and 284-311: the result of cleaning the oracle's text
RemoteChecked(l, conv, th, res) ==
    IF res.exc # "" THEN Finish(l, conv, session.answers, FALSE, th.user_input)
    ELSE IF res.ret # None /\ res.ret # <<>>
    THEN Written(l, conv, WriteValue(session.answers, th.matched_key, res.ret), th)
    ELSE Send(l, Append(conv, Msg("user", "retry", <<th.matched_key, th.user_input>>)),
              session.answers, [th EXCEPT !.pc = "final", !.purpose = "retry"])

\* lines 170-183: the matcher's loop and what follows it
MatchDecided(l, conv, matched, th) ==
    IF matched # None /\ matched # <<>>
    THEN LocalChecked(l, conv, [th EXCEPT !.matched_key = matched],
                      CleanAndValidate(th.user_input,
                                       session.answers[IndexOfKey(session.answers, matched)]))
    ELSE NoMatch(l, conv, session.answers, th)

\* chat_interface is entered: lines 82-90 of GUI.py and lines 267-165 of
\* process_user_message up to the first request or the return
handler_begins(l, text_input) ==
    /\ mode = "gradio"
    /\ running[l].pc = "idle"
    /\ Strip(text_input) # <<>>
    /\ Len(session.conversation) <= MaxConvG
    /\ IF IsExit(text_input)
       THEN Finish(l, Append(session.conversation,
                             Msg("user", "utterance", <<text_input>>)),
                   session.answers, TRUE, text_input)
       ELSE IF MatchShortCircuit(text_input)
       THEN NoMatch(l, Append(session.conversation,
                              Msg("user", "utterance", <<text_input>>)),
                    session.answers, [IdleThread EXCEPT !.user_input = text_input])
       ELSE Send(l, session.conversation \o
                       <<Msg("user", "utterance", <<text_input>>),
                         Msg("user", "probe",
                             <<text_input>> \o Unanswered(session.answers))>>,
                 session.answers,
                 [IdleThread EXCEPT !.pc = "match", !.user_input = text_input,
                                    !.unanswered = Unanswered(session.answers)])
    /\ UNCHANGED <<api_key, mode, phase>>

\* the request of the matcher returns: lines 146-149, 166-173, 278-332
match_call_returns(l, out) ==
    /\ mode = "gradio"
    /\ running[l].pc = "match"
    /\ IF out.kind = "neterr"
       THEN Finish(l, session.conversation, session.answers, FALSE, running[l].user_input)
       ELSE IF out.kind # "ok"
       THEN Finish(l, Received(session.conversation, running[l]), session.answers, FALSE,
                   running[l].user_input)
       ELSE MatchDecided(l, PopLast(Received(session.conversation, running[l])),
                         MatchLoop(Strip(out.text), running[l].unanswered), running[l])
    /\ UNCHANGED <<api_key, mode, phase>>

\* the request of the extractor returns: lines 146-149, 201-208, 284-311
extract_call_returns(l, out) ==
    /\ mode = "gradio"
    /\ running[l].pc = "extract"
    /\ IF out.kind = "neterr"
       THEN Finish(l, session.conversation, session.answers, FALSE, running[l].user_input)
       ELSE IF out.kind # "ok"
       THEN Finish(l, Received(session.conversation, running[l]), session.answers, FALSE,
                   running[l].user_input)
       ELSE RemoteChecked(l, PopLast(Received(session.conversation, running[l])),
                          running[l],
                          CleanAndValidate(
                              Strip(out.text),
                              session.answers[IndexOfKey(session.answers,
                                                         running[l].matched_key)]))
    /\ UNCHANGED <<api_key, mode, phase>>

\* the last request of the turn returns: lines 146-149 and 303-305,
\* 312-313, 328-329 or 333-343
final_call_returns(l, out) ==
    /\ mode = "gradio"
    /\ running[l].pc = "final"
    /\ IF out.kind = "neterr"
       THEN Finish(l, session.conversation, session.answers, FALSE, running[l].user_input)
       ELSE IF out.kind # "ok"
       THEN Finish(l, Received(session.conversation, running[l]), session.answers, FALSE,
                   running[l].user_input)
       ELSE Finish(l, Append(Received(session.conversation, running[l]),
                             Msg("assistant", "reply", <<Strip(out.text)>>)),
                   session.answers,
                   running[l].purpose = "generic" /\ Unanswered(session.answers) = <<>>,
                   running[l].user_input)
    /\ UNCHANGED <<api_key, mode, phase>>

NextGradio ==
    \E l \in Listeners :
        \/ \E u \in UtterancesG : handler_begins(l, u)
        \/ \E o \in MatchOutcomesG : match_call_returns(l, o)
        \/ \E o \in ExtractOutcomesG : extract_call_returns(l, o)
        \/ \E o \in FinalOutcomesG : final_call_returns(l, o)

SpecGradio == InitGradio /\ [][NextGradio]_vars

(***************************************************************************)
(* speechtotext.record_and_transcribe.  The function opens an input stream *)
(* whose callback the audio thread calls once per block of CHUNK_DURATION, *)
(* and then sleeps in a loop for ever.  The callback's body contains the   *)
(* yield statement, so callback is a generator function: a call of it      *)
(* builds a generator object and runs none of the body, and the audio      *)
(* thread drops the object it gets back.  record_and_transcribe itself has *)
(* no yield: it is a plain function that does not return.                  *)
(* session holds the cached model, the nonlocals of the function, the      *)
(* most recent blocks the stream has delivered, and the segments handed to *)
(* the caller.                                                             *)
(***************************************************************************)
SILENCE_CHUNKS_TO_STOP == 2

\* MAX_RECORDING_DURATION in blocks (20 s of 0.5 s blocks, scaled down)
MAX_RECORDING_CHUNKS == 4

\* number of delivered blocks the model remembers, the most recent ones
MaxBlocks == 6

Blocks == {"loud", "silent"}

InitRecorder ==
    /\ api_key = FALSE
    /\ mode = "recorder"
    /\ phase = "idle"
    /\ session \in {[model_cached |-> c, recording |-> <<>>, silent_chunks |-> 0,
                      start_time |-> 0, blocks |-> <<>>, yielded |-> <<>>] : c \in BOOLEAN}
    /\ last = Idle
    /\ running = NoRunning

\* lines 131-135 and 160: the model is loaded when none is passed, the
\* nonlocals are initialised and the stream is opened; the caller stays
\* inside the call from here on (lines 161-162)
record_and_transcribe(model_passed) ==
    /\ mode = "recorder"
    /\ phase = "idle"
    /\ phase' = "streaming"
    /\ session' = [session EXCEPT !.model_cached = @ \/ ~model_passed,
                                  !.recording = <<>>, !.silent_chunks = 0,
                                  !.start_time = 0]
    /\ UNCHANGED <<running, api_key, mode, last>>

\* the audio thread calls callback(indata, frames, time_info, status) for
\* one block: a generator object is built and dropped, lines 138-158 do
\* not run
callback(indata) ==
    /\ mode = "recorder"
    /\ phase = "streaming"
    /\ session' = [session EXCEPT
                       !.blocks = IF Len(@) < MaxBlocks THEN Append(@, indata)
                                  ELSE Append(Tail(@), indata)]
    /\ UNCHANGED <<running, api_key, mode, phase, last>>

NextRecorder ==
    \/ \E m \in BOOLEAN : record_and_transcribe(m)
    \/ \E b \in Blocks : callback(b)

\* the audio thread keeps delivering blocks while the stream is open
SpecRecorder == InitRecorder /\ [][NextRecorder]_vars /\ WF_vars(NextRecorder)

(***************************************************************************)
(* The two command-line loops side by side: conversation_loop of API_Call1 *)
(* and conversation_loop of API_Call2 on the same forms.                   *)
(***************************************************************************)
InitLoops ==
    /\ api_key \in BOOLEAN
    /\ mode \in {"cli", "cli2"}
    /\ phase = "idle"
    /\ session = [conversation |-> <<>>, answers |-> <<>>, form_name |-> NoForm,
                  answer_file_path |-> NoPath]
    /\ last = Idle
    /\ running = NoRunning

NextLoops ==
    \/ \E f \in FormNames : conversation_loop_start(f)
    \/ \E u \in Utterances : conversation_loop_turn(u)
    \/ \E f \in FormNames : conversation_loop2_start(f)
    \/ \E u \in Utterances2 : conversation_loop2_turn(u)
    \/ deliver

SpecLoops == InitLoops /\ [][NextLoops]_vars

(***************************************************************************)
(* Properties                                                              *)
(***************************************************************************)
\* the handler that returned was a turn of process_user_message
IsTurn == last.r.branch # ""

\* ... on a started interview
IsInterviewTurn == IsTurn /\ last.pre.form_name # NoForm

Calls == last.r.calls

Ops == last.r.ops

CallsFor(purposes) == SelectSeq(Calls, LAMBDA c : c.purpose \in purposes)

Kinds(msgs) == [i \in 1..Len(msgs) |-> msgs[i].kind]

SummaryInserted(c) == c.requested /\ Len(c.sent) = Len(c.pre) + 1

\* C1: every gateway call that inserted the answers summary at position 1
\* has removed it when the call ends, whatever the outcome: the caller's
\* list after the call is the list before it.
C1_SummaryRemovedOnEveryExit ==
    \A i \in 1..Len(Calls) : SummaryInserted(Calls[i]) => Calls[i].post = Calls[i].pre

\* C2: when the matcher or the extractor ends, by return or by exception,
\* the transcript is what it was when the operation began.
C2_ScopedPromptPopped ==
    \A i \in 1..Len(Ops) : Ops[i].after = Ops[i].before

PersistentKinds(branch) ==
    CASE branch \in {"exit", "complete"} -> <<"utterance">>
      [] branch = "generic"               -> <<"utterance", "reply">>
      [] OTHER                            -> <<"utterance", branch, "reply">>

\* C3: after a turn that returns normally the transcript is the transcript
\* before the turn followed by exactly the persistent messages of the branch
\* taken (1 on exit, 1 on completion, 3 on follow-up / retry / forced
\* prompt, 2 on a generic turn), none of them a probe, an extraction prompt
\* or a summary.
C3_TurnAppendsPersistentOnly ==
    (IsInterviewTurn /\ last.r.exc = "") =>
        LET before == last.pre.conversation
            after  == session.conversation
        IN /\ Len(after) = Len(before) + Len(PersistentKinds(last.r.branch))
           /\ SubSeq(after, 1, Len(before)) = before
           /\ Kinds(SubSeq(after, Len(before) + 1, Len(after)))
                 = PersistentKinds(last.r.branch)

C3_Witness ==
    /\ IsInterviewTurn /\ last.r.exc = ""
    /\ last.r.branch = "followup"
    /\ Len(Calls) = 3
    /\ \E i \in 1..Len(Calls) : SummaryInserted(Calls[i])

\* C4: once the interview is started, element 0 of the transcript is the
\* system prompt built at interview start, and a summary message is only
\* ever at position 1: in the transcript and in every message list sent.
SummaryOnlyAt1(msgs) == \A i \in 1..Len(msgs) : msgs[i].kind = "summary" => i = 2

C4_SystemPromptFirstSummaryAt1 ==
    session.form_name # NoForm =>
        /\ session.conversation[1] = build_system_prompt(Forms[session.form_name])
        /\ SummaryOnlyAt1(session.conversation)
        /\ IsTurn => \A i \in 1..Len(Calls) :
                        Calls[i].requested =>
                            /\ Calls[i].sent[1] = session.conversation[1]
                            /\ SummaryOnlyAt1(Calls[i].sent)

\* C5: a turn whose utterance contains an exit phrase (ignoring case,
\* anywhere in the utterance) appends the utterance, writes the current
\* answers, returns done with the closing message, makes no gateway call and
\* changes no Value, also when fields are unanswered.
C5_ExitPrecedesMatching ==
    (IsInterviewTurn /\ \E p \in ExitPhrases : Contains(Lower(last.user_input), p)) =>
        /\ session.conversation
              = Append(last.pre.conversation, Msg("user", "utterance", <<last.user_input>>))
        /\ last.r.done /\ last.r.exc = ""
        /\ last.r.msg = ClosingMsg
        /\ Calls = <<>> /\ Ops = <<>>
        /\ session.answers = last.pre.answers
        /\ last.saves # <<>>
        /\ \A i \in 1..Len(last.saves) : last.saves[i] = last.pre.answers

C5_Witness ==
    /\ IsInterviewTurn
    /\ last.user_input = u_okBYE
    /\ \E i \in 1..Len(session.answers) :
          session.answers[i].Required /\ session.answers[i].Value = <<>>
    /\ \E i \in 1..Len(session.answers) : session.answers[i].Value # <<>>

\* C6: every field's Value is empty or passes validate_answer for the
\* field's Type and Options.
C6_ValueEmptyOrValid ==
    \A i \in 1..Len(session.answers) :
        \/ session.answers[i].Value = <<>>
        \/ validate_answer(session.answers[i].Value, session.answers[i].Type,
                           session.answers[i].Options)

AllAnswered(answers) == \A i \in 1..Len(answers) : Strip(answers[i].Value) # <<>>

ExtractOps == SelectSeq(Ops, LAMBDA op : op.name = "extract")

\* C7: when extraction succeeds the matched field's Value is written, and
\* the turn is done exactly if no field is empty after the write; then the
\* answers with the new Value are written in the same turn and no follow-up
\* call is made; otherwise exactly one follow-up call is made and the turn
\* is not done.
C7_ExtractionSuccess ==
    (IsInterviewTurn /\ ExtractOps # <<>> /\ ExtractOps[1].exc = ""
        /\ ExtractOps[1].ret # None) =>
        LET op == ExtractOps[1]
            i  == IndexOfKey(last.pre.answers, op.fields[1])
        IN /\ session.answers[i].Value = Strip(FirstLine(op.ret))
           /\ session.answers[i].Value # <<>>
           /\ \A j \in 1..Len(session.answers) :
                 j # i => session.answers[j] = last.pre.answers[j]
           /\ last.r.done <=> AllAnswered(session.answers)
           /\ AllAnswered(session.answers) =>
                 /\ last.saves # <<>>
                 /\ \A j \in 1..Len(last.saves) : last.saves[j] = session.answers
                 /\ CallsFor(FinalPurposes) = <<>>
           /\ ~AllAnswered(session.answers) =>
                 /\ Len(CallsFor({"followup"})) = 1
                 /\ Len(CallsFor(FinalPurposes)) = 1
                 /\ last.saves = <<>>

C7_Witness ==
    /\ IsInterviewTurn /\ ExtractOps # <<>> /\ ExtractOps[1].ret # None
    /\ Len(session.answers) = 2
    /\ last.r.done
    /\ ExtractOps[1].calls # <<>>

\* C8: when a field is matched and extraction fails, no Value changes, no
\* answers file is written, exactly one retry call is made, its reply is
\* the turn's message, and the turn is not done: the field is still
\* unanswered.
C8_ExtractionFailure ==
    (IsInterviewTurn /\ ExtractOps # <<>> /\ ExtractOps[1].exc = ""
        /\ ExtractOps[1].ret = None) =>
        LET op == ExtractOps[1]
            i  == IndexOfKey(last.pre.answers, op.fields[1])
        IN /\ session.answers = last.pre.answers
           /\ Strip(session.answers[i].Value) = <<>>
           /\ last.saves = <<>>
           /\ Len(CallsFor({"retry"})) = 1
           /\ Len(CallsFor(FinalPurposes)) = 1
           /\ ~last.r.done
           /\ last.r.exc = "" =>
                 /\ last.r.msg = Strip(CallsFor({"retry"})[1].text)
                 /\ session.conversation[Len(session.conversation)]
                       = Msg("assistant", "reply", <<last.r.msg>>)

C8_Witness ==
    /\ IsInterviewTurn /\ ExtractOps # <<>> /\ ExtractOps[1].exc = ""
    /\ ExtractOps[1].ret = None
    /\ ExtractOps[1].calls # <<>>
    /\ last.r.exc = ""

MatchOps == SelectSeq(Ops, LAMBDA op : op.name = "match")

\* C9: for an utterance shorter than 3 characters after trimming, or equal
\* to a word of the greeting lexicon ignoring case, the matcher makes no
\* gateway call, returns no match and leaves the transcript untouched.
C9_MatcherShortCircuit ==
    \A i \in 1..Len(MatchOps) :
        LET op == MatchOps[i] IN
        (Len(Strip(op.user_input)) < 3 \/ Lower(op.user_input) \in GreetingLexicon) =>
            /\ op.calls = <<>>
            /\ op.ret = None
            /\ op.exc = ""
            /\ op.after = op.before

C9_Witness ==
    /\ IsInterviewTurn
    /\ MatchOps # <<>>
    /\ MatchOps[1].user_input = u_Hello
    /\ \E i \in 1..Len(session.answers) : session.answers[i].Value # <<>>

\* C10: when the matcher's gateway call returns, the result is the first
\* unanswered field, in declared order, whose name equals the oracle's
\* trimmed reply ignoring case, and no match if there is none (the reply
\* "None", the name of an answered field, any other text).
C10_MatchIsExactUnansweredName ==
    \A i \in 1..Len(MatchOps) :
        LET op    == MatchOps[i]
            open  == SelectSeq(last.pre.answers, LAMBDA v : Strip(v.Value) = <<>>)
            reply == Lower(Strip(op.calls[1].text))
            eq    == {j \in 1..Len(open) : Lower(open[j].Name) = reply}
        IN (op.exc = "" /\ op.calls # <<>>) =>
              IF eq = {} THEN op.ret = None
              ELSE op.ret = open[CHOOSE j \in eq : \A k \in eq : j <= k].Name

C10_Witness ==
    /\ IsInterviewTurn
    /\ MatchOps # <<>> /\ MatchOps[1].calls # <<>>
    /\ MatchOps[1].calls[1].text = t_age
    /\ MatchOps[1].ret = n_Age

\* the field an extractor invocation was called for
FieldOf(op) == last.pre.answers[IndexOfKey(last.pre.answers, op.fields[1])]

\* the locally cleaned utterance passes validate_answer (lines 182-183)
LocallyValid(op) ==
    /\ ~IsRaise(clean_value(op.user_input, FieldOf(op).Type))
    /\ ~ValidateRaises(clean_value(op.user_input, FieldOf(op).Type), FieldOf(op).Type)
    /\ validate_answer(clean_value(op.user_input, FieldOf(op).Type), FieldOf(op).Type,
                       FieldOf(op).Options)

\* C11: extract_clean_answer makes no gateway call and leaves the
\* transcript as it was whenever the locally cleaned utterance passes
\* validate_answer, and makes exactly one gateway call otherwise.
C11_LocalPathOrOneCall ==
    \A i \in 1..Len(ExtractOps) :
        IF LocallyValid(ExtractOps[i])
        THEN ExtractOps[i].calls = <<>> /\ ExtractOps[i].after = ExtractOps[i].before
        ELSE Len(ExtractOps[i].calls) = 1

\* the text the extractor's result was cleaned from: the utterance, or the
\* oracle's trimmed reply when the call was made
SourceOf(op) == IF op.calls = <<>> THEN op.user_input ELSE Strip(op.calls[1].text)

PassesPipeline(raw, field_info) ==
    /\ ~IsRaise(clean_value(raw, field_info.Type))
    /\ ~ValidateRaises(clean_value(raw, field_info.Type), field_info.Type)
    /\ validate_answer(clean_value(raw, field_info.Type), field_info.Type,
                       field_info.Options)

UtteranceMsg == Msg("user", "utterance", <<last.user_input>>)

\* C13: when the matcher returns no match, a turn on a form with every
\* field unanswered makes exactly one further gateway call, on the
\* transcript extended by the forced prompt naming the first declared field,
\* emits the reply and is not done; a turn on a form with an answered field
\* makes exactly one further call, the generic one, on the transcript
\* extended by the utterance only.  No Value changes in either case.
C13_NoMatchForcedOrGeneric ==
    (IsInterviewTurn /\ MatchOps # <<>> /\ MatchOps[1].exc = "" /\ MatchOps[1].ret = None) =>
        /\ Len(CallsFor(FinalPurposes)) = 1
        /\ session.answers = last.pre.answers
        /\ IF Unanswered(last.pre.answers) = Keys(last.pre.answers)
           THEN /\ Len(CallsFor({"force"})) = 1
                /\ CallsFor({"force"})[1].pre
                      = last.pre.conversation \o
                           <<UtteranceMsg,
                             Msg("user", "force",
                                 <<last.user_input, last.pre.answers[1].Name>>)>>
                /\ ~last.r.done
                /\ last.r.exc = "" =>
                      /\ last.r.msg = Strip(CallsFor({"force"})[1].text)
                      /\ session.conversation
                            = Append(CallsFor({"force"})[1].pre,
                                     Msg("assistant", "reply", <<last.r.msg>>))
           ELSE /\ Len(CallsFor({"generic"})) = 1
                /\ CallsFor({"generic"})[1].pre
                      = Append(last.pre.conversation, UtteranceMsg)

C13_Witness ==
    /\ IsInterviewTurn /\ MatchOps # <<>> /\ MatchOps[1].ret = None
    /\ MatchOps[1].calls # <<>>
    /\ Len(last.pre.answers) = 2
    /\ Len(CallsFor({"force"})) = 1
    /\ last.r.exc = ""

\* C16: without the credential every chat_completion call raises the
\* missing-credential failure, sends no request and leaves the list it was
\* given unchanged; with the credential every call sends its request.
C16_MissingCredentialFirst ==
    \A i \in 1..Len(Calls) :
        IF api_key
        THEN Calls[i].requested
        ELSE /\ ~Calls[i].requested
             /\ Calls[i].sent = <<>>
             /\ Calls[i].post = Calls[i].pre
             /\ Calls[i].out = "nokey"
             /\ last.r.exc = "RuntimeError"

C16_Witness ==
    /\ ~api_key
    /\ Calls # <<>>
    /\ answered_summary_message(last.pre.answers) # NoMsg
    /\ last.r.exc = "RuntimeError"

\* C17: a payload that lacks completion_message.content.text, by a missing
\* key or by a level that is not an object, makes parse_response raise the
\* malformed-response error (ValueError): the turn ends with it at that
\* call, and no text is taken from the payload.
C17_MalformedPayloadRaisesValueError ==
    \A i \in 1..Len(Calls) :
        Calls[i].out \in {"keyerr", "typeerr"} =>
            /\ i = Len(Calls)
            /\ last.r.exc = "ValueError"

\* position of a call in a turn: the matcher's, the extractor's, the last one
Rank(purpose) ==
    CASE purpose = "match"   -> 1
      [] purpose = "extract" -> 2
      [] OTHER               -> 3

\* C18: a turn makes at most three gateway calls, in the order match,
\* extract, then one of retry / follow-up / forced / generic, each at most
\* once; each call sends one request (none without the credential); a call
\* is only made after the previous one has returned its payload, so a failed
\* call is the last of its turn and is not made again.
C18_NoRetryOrderedCalls ==
    IsTurn =>
        /\ Len(Calls) <= 3
        /\ \A i \in 1..Len(Calls) : \A j \in 1..Len(Calls) :
               i < j => Rank(Calls[i].purpose) < Rank(Calls[j].purpose)
        /\ \A i \in 1..Len(Calls) :
               /\ Calls[i].requested <=> api_key
               /\ i < Len(Calls) => Calls[i].out = "ok"
               /\ Calls[i].out # "ok" => last.r.exc # ""

C18_Witness ==
    /\ IsInterviewTurn
    /\ Len(Calls) = 3
    /\ Calls[1].purpose = "match" /\ Calls[2].purpose = "extract"
    /\ Calls[3].purpose = "retry"
    /\ Calls[3].out = "neterr"

\* C20: a non-empty Value of a field whose Type normalizes to boolean is
\* "yes" or "no", and a non-empty Value of a field whose Type normalizes to
\* int consists of decimal digits only.
C20_ValueIsCanonical ==
    \A i \in 1..Len(session.answers) :
        session.answers[i].Value # <<>> =>
            /\ normalize_type(session.answers[i].Type) = "boolean" =>
                  session.answers[i].Value \in {s_yes, s_no}
            /\ normalize_type(session.answers[i].Type) = "int" =>
                  IsDigit(session.answers[i].Value)

\* the invocation that returned left the interview terminal: its turn
\* returned done or left the CLI loop, or the CLI read an empty line
EndsInterview ==
    \/ last.r.done /\ last.r.exc = ""
    \/ /\ last.op \in {"conversation_loop_turn", "conversation_loop2_turn"}
       /\ last.user_input = <<>>

\* C14: the answers file is written only by an invocation that leaves the
\* interview terminal: not at interview start and not by a turn after which
\* the interview goes on.
C14_SavesOnlyAtTerminal == last.saves # <<>> => EndsInterview

\* C15: a turn that reaches COMPLETE or TERMINATED (it returns done, or its
\* utterance holds an exit phrase) has written the answers and the
\* transcript, as they are then, when it returns.
C15_TerminalPersistsBoth ==
    (last.r.branch # "" /\ last.r.exc = "" /\ (last.r.done \/ IsExit(last.user_input))) =>
        /\ last.saves # <<>>
        /\ last.saves[Len(last.saves)] = session.answers
        /\ last.logs = <<session.conversation>>

ScopedKinds == {"probe", "extract", "summary"}

\* when no handler is executing, the transcript holds no scoped message
NoScopedMessageWhenIdle ==
    (\A l \in Listeners : running[l].pc = "idle") =>
        \A i \in 1..Len(session.conversation) :
            session.conversation[i].kind \notin ScopedKinds

\* C19: at most one GUI handler is executing a turn on the session at any
\* time, and so no scoped message (probe, extraction prompt, summary) of a
\* turn is seen or removed by another turn: when no handler is executing,
\* the transcript holds none (the oracle does not fail in SpecGradio).
C19_OneTurnAtATime ==
    /\ \A l1 \in Listeners : \A l2 \in Listeners :
           (running[l1].pc # "idle" /\ running[l2].pc # "idle") => l1 = l2
    /\ NoScopedMessageWhenIdle

(***************************************************************************)
(* Closed-world validation                                                 *)
(***************************************************************************)
\* the types validate_answer has a rule for, after normalize_type
SupportedTypes == {"text", "int", "float", "datetime", "boolean", "multichoice"}

UnknownType(field_info) == normalize_type(field_info.Type) \notin SupportedTypes

\* the strings an extractor invocation has validated: the utterance and,
\* when the oracle was asked, its reply
Candidates(op) == {op.user_input} \cup {Strip(op.calls[k].text) : k \in 1..Len(op.calls)}

\* C21: for a field whose Type does not normalize to text, int, float,
\* datetime, boolean or multichoice, validate_answer rejects every value
\* offered for it, the extractor returns absence, the field's Value stays
\* empty, and no turn of an interview with such a field ends in COMPLETE
\* (done with the all-answered message): only the exit phrase ends it.
C21_UnknownTypeNeverAnswered ==
    \A i \in 1..Len(session.answers) :
        UnknownType(session.answers[i]) =>
            /\ session.answers[i].Value = <<>>
            /\ ~(IsTurn /\ last.r.done /\ last.r.msg = AllAnsweredMsg)
            /\ (IsTurn /\ last.r.done) => last.r.branch = "exit"
            /\ \A k \in 1..Len(ExtractOps) :
                  ExtractOps[k].fields = <<session.answers[i].Name>> =>
                     /\ ExtractOps[k].exc = "" => ExtractOps[k].ret = None
                     /\ \A v \in Candidates(ExtractOps[k]) :
                           ~validate_answer(v, session.answers[i].Type,
                                            session.answers[i].Options)

\* the oracle's reply "12" for the field of Type "number" was rejected and
\* the turn asked again
C21_Witness ==
    /\ IsInterviewTurn
    /\ session.form_name = "survey"
    /\ ExtractOps # <<>>
    /\ ExtractOps[1].calls # <<>>
    /\ ExtractOps[1].calls[1].text = t_12
    /\ ExtractOps[1].ret = None
    /\ last.r.branch = "retry"
    /\ last.r.exc = ""

(***************************************************************************)
(* The cleaning rules                                                      *)
(***************************************************************************)
CleanOps == SelectSeq(Ops, LAMBDA op : op.name = "clean_value")

\* the strings str(int(x)) and str(float(x)) produce
IsCanonicalNumber(s, expected_type) ==
    IF expected_type = "int"
    THEN ParseFloat(s).kind = "num" /\ StrOfInt(ParseFloat(s)) = s
    ELSE ParseFloat(s).kind # "err" /\ StrOfFloat(ParseFloat(s)) = s

\* C22: clean_value for type int or float never raises: for every input
\* string it returns absence or a canonical numeric string.
C22_NumericCleaningNeverRaises ==
    \A i \in 1..Len(CleanOps) :
        (CleanOps[i].fields[1] \in {"int", "float"} /\ CleanOps[i].user_input # None) =>
            /\ CleanOps[i].exc = ""
            /\ CleanOps[i].ret = None
                  \/ IsCanonicalNumber(CleanOps[i].ret, CleanOps[i].fields[1])

\* the session's field accepts the string: validate_answer returns True
Accepted(value) ==
    /\ ~ValidateRaises(value, FnLastField.Type)
    /\ validate_answer(value, FnLastField.Type, FnLastField.Options)

\* C23: cleaning is idempotent on valid values: when clean_value(v, t) is
\* accepted by validate_answer for t and the Options, cleaning it again
\* for t returns the same string, which is still accepted.
C23_CleaningIdempotentOnValid ==
    (Len(CleanOps) = 2 /\ CleanOps[1].exc = "" /\ CleanOps[1].ret # None
        /\ Accepted(CleanOps[1].ret)) =>
        /\ CleanOps[2].user_input = CleanOps[1].ret
        /\ CleanOps[2].exc = ""
        /\ CleanOps[2].ret = CleanOps[1].ret
        /\ Accepted(CleanOps[2].ret)

\* "$17.50" cleaned to "17.5" for a float field, and "17.5" cleaned again
C23_Witness ==
    /\ phase = "recleaned"
    /\ Len(CleanOps) = 2
    /\ FnLastField.Type = "float"
    /\ CleanOps[1].user_input = u_price
    /\ CleanOps[1].ret # u_price
    /\ Accepted(CleanOps[1].ret)
    /\ CleanOps[2].ret = CleanOps[1].ret

\* a word of the lexicon is a substring of the input, whatever the case
HasWord(value, lexicon) == \E p \in lexicon : Contains(Lower(value), p)

\* C24: clean_value for type boolean returns "yes" for an input containing
\* an affirmative word, otherwise "no" for an input containing a negative
\* word, otherwise the trimmed input as it is; an input containing words
\* of both lexicons yields "yes".
C24_BooleanCleaning ==
    \A i \in 1..Len(CleanOps) :
        (CleanOps[i].fields[1] = "boolean" /\ CleanOps[i].user_input # None) =>
            /\ CleanOps[i].exc = ""
            /\ HasWord(CleanOps[i].user_input, YesLexicon) => CleanOps[i].ret = s_yes
            /\ (~HasWord(CleanOps[i].user_input, YesLexicon)
                    /\ HasWord(CleanOps[i].user_input, NoLexicon)) =>
                  CleanOps[i].ret = s_no
            /\ (~HasWord(CleanOps[i].user_input, YesLexicon)
                    /\ ~HasWord(CleanOps[i].user_input, NoLexicon)) =>
                  CleanOps[i].ret = Strip(CleanOps[i].user_input)

\* "No, yes" holds a word of each lexicon and was cleaned to "yes"
C24_Witness ==
    /\ CleanOps # <<>>
    /\ CleanOps[1].fields[1] = "boolean"
    /\ CleanOps[1].user_input = u_NoYes
    /\ HasWord(u_NoYes, YesLexicon) /\ HasWord(u_NoYes, NoLexicon)
    /\ CleanOps[1].ret = s_yes

(***************************************************************************)
(* The recorder                                                            *)
(***************************************************************************)
\* the stream has delivered audio followed by SILENCE_CHUNKS_TO_STOP silent
\* blocks, or more than MAX_RECORDING_CHUNKS blocks with audio among them
SegmentEnded ==
    /\ mode = "recorder"
    /\ \E i \in 1..Len(session.blocks) :
          /\ session.blocks[i] = "loud"
          /\ \/ /\ Len(session.blocks) >= i + SILENCE_CHUNKS_TO_STOP
                /\ \A j \in (i + 1)..(i + SILENCE_CHUNKS_TO_STOP) :
                      session.blocks[j] = "silent"
             \/ Len(session.blocks) > MAX_RECORDING_CHUNKS

\* C25: after silence or the maximum recording duration is reached with
\* audio recorded, a transcription is eventually handed to the caller of
\* record_and_transcribe.
C25_SegmentEventuallyDelivered == SegmentEnded ~> (session.yielded # <<>>)

(***************************************************************************)
(* The answer set across turns                                             *)
(***************************************************************************)
\* the step is taken within the interview: no form is started by it
SameInterview == last'.op \notin {"start_form", "conversation_loop_start"}

\* C26: within an interview a Value that is non-empty is never changed or
\* cleared by a later step: only a field that is unanswered when the turn
\* begins is written.
C26_ValuesWriteOnce ==
    [][SameInterview =>
          /\ Len(session'.answers) = Len(session.answers)
          /\ \A i \in 1..Len(session.answers) :
                session.answers[i].Value # <<>> =>
                    session'.answers[i].Value = session.answers[i].Value]_vars

\* a turn on an interview with one field answered before it has written
\* another field
C26_Witness ==
    /\ IsInterviewTurn
    /\ \E i, j \in 1..Len(last.pre.answers) :
          /\ last.pre.answers[i].Value # <<>>
          /\ session.answers[i].Value = last.pre.answers[i].Value
          /\ last.pre.answers[j].Value = <<>>
          /\ session.answers[j].Value # <<>>

\* the positions whose Value the turn changed
Changed == {i \in 1..Len(last.pre.answers) :
               session.answers[i].Value # last.pre.answers[i].Value}

\* C27: a turn of process_user_message adds and removes no field, changes
\* no field's Name, Type, Options or Required, and changes the Value of at
\* most one field, the one the matcher returned.
C27_FieldSetStable ==
    IsTurn =>
        /\ Len(session.answers) = Len(last.pre.answers)
        /\ session.answers = last.r.answers
        /\ \A i \in 1..Len(last.pre.answers) :
              session.answers[i] = [last.pre.answers[i] EXCEPT
                                       !.Value = session.answers[i].Value]
        /\ Cardinality(Changed) <= 1
        /\ \A i \in Changed :
              /\ MatchOps # <<>>
              /\ MatchOps[1].ret = session.answers[i].Name

\* a turn on the form of two fields has written one Value and left the
\* other field as it was
C27_Witness ==
    /\ IsInterviewTurn
    /\ Len(last.pre.answers) = 2
    /\ Cardinality(Changed) = 1
    /\ \E j \in 1..2 : j \notin Changed /\ session.answers[j].Value = <<>>

\* an earlier turn of this session has returned done: the transcript the
\* turn began with holds an utterance with an exit phrase (the exit turn
\* of a started session always returns done), or every field was answered
EndedBefore ==
    \/ \E k \in 1..Len(last.pre.conversation) :
          /\ last.pre.conversation[k].kind = "utterance"
          /\ IsExit(last.pre.conversation[k].args[1])
    \/ AllAnswered(last.pre.answers)

\* C28: once a turn of the session has returned done, a later turn on the
\* same session changes no Value and writes no answers file with content
\* other than the answers as they were when the session ended.
C28_TerminalAbsorbing ==
    (IsInterviewTurn /\ EndedBefore) =>
        /\ session.answers = last.pre.answers
        /\ \A k \in 1..Len(last.saves) : last.saves[k] = last.pre.answers

(***************************************************************************)
(* Retries                                                                 *)
(***************************************************************************)
\* the failing turns for the field that the transcript records: its retry
\* prompts naming the field
RetriesFor(conversation, field_name) ==
    Cardinality({k \in 1..Len(conversation) :
                    /\ conversation[k].kind = "retry"
                    /\ conversation[k].args[1] = field_name})

\* C29: there is no retry limit: a failing turn for a matched field, after
\* however many failing turns for the same field, is not done, leaves the
\* Value empty and the session as it was but for the transcript, so that
\* the interview stays open for the next attempt; and COMPLETE is returned
\* only when every Value is filled, each by a turn in which the oracle
\* matched the field and a valid value was extracted.
C29_RetriesUnbounded ==
    /\ (IsInterviewTurn /\ last.r.branch = "retry") =>
          /\ ~last.r.done
          /\ last.saves = <<>>
          /\ [session EXCEPT !.conversation = last.pre.conversation] = last.pre
          /\ Strip(session.answers[IndexOfKey(session.answers,
                                              ExtractOps[1].fields[1])].Value) = <<>>
          /\ last.r.exc = "" =>
                /\ phase = "running"
                /\ RetriesFor(session.conversation, ExtractOps[1].fields[1])
                      = RetriesFor(last.pre.conversation, ExtractOps[1].fields[1]) + 1
    /\ (IsInterviewTurn /\ last.r.done /\ last.r.msg = AllAnsweredMsg) =>
          /\ AllAnswered(session.answers)
          /\ \A i \in Changed :
                /\ MatchOps[1].ret = session.answers[i].Name
                /\ ExtractOps # <<>> /\ ExtractOps[1].ret # None

\* a second failing turn in a row for the same field: the interview is
\* still open and the field still empty
C29_Witness ==
    /\ IsInterviewTurn /\ last.r.branch = "retry" /\ last.r.exc = ""
    /\ RetriesFor(last.pre.conversation, ExtractOps[1].fields[1]) >= 1
    /\ last.pre.conversation[Len(last.pre.conversation) - 1].kind = "retry"
    /\ RetriesFor(session.conversation, ExtractOps[1].fields[1]) >= 2
    /\ ~last.r.done
    /\ phase = "running"

(***************************************************************************)
(* The generic turn                                                        *)
(***************************************************************************)
IsGenericTurn == IsInterviewTurn /\ last.r.branch = "generic"

\* the generic turn changes no Value, and its completion check reports
\* done exactly if every field was answered when the turn began
GenericRecheck ==
    IsGenericTurn =>
        /\ session.answers = last.pre.answers
        /\ last.r.exc = "" => (last.r.done <=> AllAnswered(last.pre.answers))
        /\ last.r.exc # "" => ~last.r.done

\* C30: a generic turn changes no Value, its completion check reports
\* COMPLETE exactly if every field was answered before the turn began, and
\* (every all-answered state of the interview having returned done when it
\* arose) no generic turn reports COMPLETE.
C30_GenericNeverCompletes ==
    /\ GenericRecheck
    /\ IsGenericTurn => ~last.r.done

(***************************************************************************)
(* The summary in the messages sent                                        *)
(***************************************************************************)
\* the answers a gateway call of the turn was given: the follow-up call is
\* made after the Value is written, every other call before any write
AnswersAt(c) == IF c.purpose = "followup" THEN session.answers ELSE last.pre.answers

Filled(answers) == SelectSeq(answers, LAMBDA v : Strip(v.Value) # <<>>)

Summaries(msgs) == {k \in 1..Len(msgs) : msgs[k].kind = "summary"}

\* the field names a summary message lists, in order
ListedNames(m) == [k \in 1..(Len(m.args) \div 2) |-> m.args[2 * k - 1]]

SentAsClaimed(c) ==
    IF Filled(AnswersAt(c)) = <<>>
    THEN Summaries(c.sent) = {}
    ELSE /\ Summaries(c.sent) = {2}
         /\ c.sent[1].kind = "sysprompt"
         /\ ListedNames(c.sent[2]) = Keys(Filled(AnswersAt(c)))
         /\ \A k \in 1..Len(Filled(AnswersAt(c))) :
               c.sent[2].args[2 * k] = Filled(AnswersAt(c))[k].Value

\* C31: the message list of every request sent to the oracle holds the
\* answers summary exactly once, at index 1 after the system prompt, if a
\* field has a Value that is non-empty after trimming, and no summary
\* otherwise; the summary lists the answered fields and only them.
C31_SummarySentIffAnswered ==
    IsTurn => \A i \in 1..Len(Calls) : Calls[i].requested => SentAsClaimed(Calls[i])

\* the same for the calls made on a transcript that holds no summary
SummaryOnCleanTranscript ==
    IsTurn => \A i \in 1..Len(Calls) :
                 (Calls[i].requested /\ Summaries(Calls[i].pre) = {}) =>
                     SentAsClaimed(Calls[i])

(***************************************************************************)
(* The Required flag                                                       *)
(***************************************************************************)
\* the same fields with other Required flags
WithRequired(answers, flags) ==
    [i \in 1..Len(answers) |-> [answers[i] EXCEPT !.Required = flags[i]]]

\* the oracle's outcome in the turn's call of one of the purposes
OutcomeFor(purposes) ==
    IF CallsFor(purposes) = <<>> THEN Unused
    ELSE Outcome(CallsFor(purposes)[1].out, CallsFor(purposes)[1].text)

\* the turn's result with the fields' flags replaced, everything else kept
Relabelled(r, flags) ==
    [r EXCEPT !.answers = WithRequired(@, flags),
              !.saves = [k \in 1..Len(@) |-> WithRequired(@[k], flags)]]

\* the turn taken on the same session with other Required flags, the same
\* utterance and the same oracle outcomes
SameTurnWith(flags) ==
    process_user_message(last.user_input, last.pre.conversation,
                         WithRequired(last.pre.answers, flags),
                         last.pre.answer_file_path, OutcomeFor({"match"}),
                         OutcomeFor({"extract"}), OutcomeFor(FinalPurposes), api_key)

\* C32: in the API_Call1 controller a turn on the same session with any
\* other Required flags, the same utterance and the same oracle outcomes
\* gives the same message, transcript, calls, Values, saved Values and
\* done, and COMPLETE is returned only with every field answered, required
\* or not; a turn of the API_Call2 loop that reaches its check leaves the
\* loop exactly if no required field is unanswered.
C32_RequiredHasNoInfluence ==
    /\ (mode = "cli" /\ IsTurn) =>
          /\ \A flags \in [1..Len(last.pre.answers) -> BOOLEAN] :
                SameTurnWith(flags) = Relabelled(last.r, flags)
          /\ (last.r.done /\ last.r.msg = AllAnsweredMsg) => AllAnswered(session.answers)
    /\ (mode = "cli2" /\ IsTurn /\ last.r.exc = "" /\ last.r.branch # "exit") =>
          /\ last.r.done <=> RequiredUnanswered(session.answers) = <<>>
          /\ (phase = "ended") <=> last.r.done

\* API_Call1: the required field is answered, the field that is not
\* required is still empty, and the interview goes on
C32_Witness ==
    /\ mode = "cli" /\ IsInterviewTurn
    /\ last.r.branch = "followup" /\ last.r.exc = ""
    /\ RequiredUnanswered(session.answers) = <<>>
    /\ Unanswered(session.answers) # <<>>
    /\ ~last.r.done
    /\ phase = "running"

\* API_Call2: the loop is left with a field that is not required unanswered
LoopLeftOnRequired ==
    /\ mode = "cli2" /\ IsTurn /\ last.r.exc = "" /\ last.r.branch = "generic"
    /\ last.r.done /\ phase = "ended"
    /\ Unanswered(session.answers) # <<>>

====
